---- MODULE Spec2Model ----
(***************************************************************************)
(* The C64 image converters of C64AIToolChain:                             *)
(*   christmas/image_improved.py  (colour matcher, Floyd-Steinberg         *)
(*                                 dithering, tiler, header writer)        *)
(*   newyear/image.py             (convert_image)                          *)
(*   christmas/image.py           (the legacy module-level script)         *)
(*                                                                         *)
(* Numbers.  Python floats are modelled in fixed point.  A channel value   *)
(* of a pixel buffer is an integer count of 1/Scale; every value the       *)
(* dithering loop can produce on the buffers explored here is an exact     *)
(* multiple of 1/Scale, so sums, products by 7, 3, 5, 1 and divisions by   *)
(* 16 are exact, as they are in binary64.  Lab coordinates are kept in     *)
(* tenths.  A Euclidean distance sqrt(s) is represented by its radicand s: *)
(* sqrt is strictly increasing and separates the integers in range, so     *)
(* every comparison of two distances is the comparison of the radicands.   *)
(***************************************************************************)
EXTENDS Integers, Sequences, FiniteSets, TLC

VARIABLES
    prog,          \* the script or function that is running
    pc,            \* its position; the name of the exception it ended with
    img,           \* the file it is given, then the image it works on
    args,          \* use_dithering, threshold, invert of generate_c64_data,
                   \* and in runs of main the parsed command line they are from
    pixels,        \* the mutable pixel buffer of the quantisation pass
    idx,           \* position of the quantisation pass
    cell,          \* number of 8x8 cells already processed
    charmap,       \* pattern -> index, in insertion order
    char_data,     \* the stored patterns, in index order
    char_counter,  \* next index to hand out
    screen_data,   \* screen map built so far
    color_data,    \* colour map built so far
    cell_log,      \* the bitmap computed for each processed cell
    files,         \* the three output artifacts
    rgb,           \* argument of a colour matcher
    best,          \* its result
    response,      \* the monitor's answer to the memory command, by lines
    added          \* the observations given to add_to_history since the
                   \* history was last cleared

vars == <<prog, pc, img, args, pixels, idx, cell, charmap, char_data,
          char_counter, screen_data, color_data, cell_log, files, rgb, best,
          response, added>>

----------------------------------------------------------------------------
(* Fixed point *)

Scale == 16 * 16 * 16 * 16 * 16

Max(a, b) == IF a >= b THEN a ELSE b
Min(a, b) == IF a <= b THEN a ELSE b
Abs(a) == IF a < 0 THEN 0 - a ELSE a

(* TLC evaluates the arguments of an operator only when they are used; a   *)
(* loop that hands its state on tests Ready(state) first, so that each     *)
(* pass of the loop is evaluated before the next one starts.               *)
Ready(v) == v = v

(* float('inf') and the finite distances *)
Inf == [inf |-> TRUE, v |-> 0]
Fin(n) == [inf |-> FALSE, v |-> n]
Lt(d, m) == m.inf \/ d < m.v

----------------------------------------------------------------------------
(* The palette, christmas/image_improved.py *)

C64_PALETTE ==
  << <<0, 0, 0>>, <<255, 255, 255>>, <<136, 0, 0>>, <<170, 255, 238>>,
     <<204, 68, 204>>, <<0, 204, 85>>, <<0, 0, 170>>, <<238, 238, 119>>,
     <<221, 136, 85>>, <<102, 68, 0>>, <<255, 119, 119>>, <<51, 51, 51>>,
     <<119, 119, 119>>, <<170, 255, 102>>, <<0, 136, 255>>, <<187, 187, 187>> >>

(* newyear/image.py *)
C64_COLORS ==
  << <<0, 0, 0>>, <<255, 255, 255>>, <<136, 0, 0>>, <<170, 255, 238>>,
     <<204, 68, 204>>, <<0, 204, 85>>, <<0, 0, 170>>, <<238, 238, 119>>,
     <<221, 136, 85>>, <<102, 68, 0>>, <<255, 119, 119>>, <<51, 51, 51>>,
     <<119, 119, 119>>, <<170, 255, 102>>, <<0, 136, 255>>, <<187, 187, 187>> >>

(* christmas/image.py *)
colors ==
  << <<0, 0, 0>>, <<255, 255, 255>>, <<136, 0, 0>>, <<170, 255, 238>>,
     <<204, 68, 204>>, <<0, 204, 85>>, <<0, 0, 170>>, <<238, 238, 119>>,
     <<221, 136, 85>>, <<102, 68, 0>>, <<255, 119, 119>>, <<51, 51, 51>>,
     <<119, 119, 119>>, <<170, 255, 102>>, <<0, 136, 255>>, <<187, 187, 187>> >>

(* Python indexes from 0 *)
At(s, i) == s[i + 1]

----------------------------------------------------------------------------
(* rgb_to_lab.  srgb_to_linear[c + 1] is 10^4 times the linear value of    *)
(* the integer channel c, ((c/255 + 0.055)/1.055)^2.4 above 0.04045 and    *)
(* (c/255)/12.92 below; between two integers the curve is interpolated.    *)

srgb_to_linear ==
  <<
     0, 3, 6, 9, 12, 15, 18, 21, 24, 27, 30, 33, 37, 40, 44, 48,
     52, 56, 60, 65, 70, 75, 80, 86, 91, 97, 103, 110, 116, 123, 130, 137,
     144, 152, 160, 168, 176, 185, 194, 203, 212, 222, 232, 242, 252, 262, 273, 284,
     296, 307, 319, 331, 343, 356, 369, 382, 395, 409, 423, 437, 452, 467, 482, 497,
     513, 529, 545, 561, 578, 595, 612, 630, 648, 666, 685, 704, 723, 742, 762, 782,
     802, 823, 844, 865, 887, 908, 931, 953, 976, 999, 1022, 1046, 1070, 1095, 1119, 1144,
     1170, 1195, 1221, 1248, 1274, 1301, 1329, 1356, 1384, 1413, 1441, 1470, 1500, 1529, 1559, 1590,
     1620, 1651, 1683, 1714, 1746, 1779, 1812, 1845, 1878, 1912, 1946, 1981, 2016, 2051, 2086, 2122,
     2159, 2195, 2232, 2270, 2307, 2346, 2384, 2423, 2462, 2502, 2542, 2582, 2623, 2664, 2705, 2747,
     2789, 2831, 2874, 2918, 2961, 3005, 3050, 3095, 3140, 3185, 3231, 3278, 3325, 3372, 3419, 3467,
     3515, 3564, 3613, 3663, 3712, 3763, 3813, 3864, 3916, 3968, 4020, 4072, 4125, 4179, 4233, 4287,
     4342, 4397, 4452, 4508, 4564, 4621, 4678, 4735, 4793, 4851, 4910, 4969, 5029, 5089, 5149, 5210,
     5271, 5333, 5395, 5457, 5520, 5583, 5647, 5711, 5776, 5841, 5906, 5972, 6038, 6105, 6172, 6240,
     6308, 6376, 6445, 6514, 6584, 6654, 6724, 6795, 6867, 6939, 7011, 7084, 7157, 7231, 7305, 7379,
     7454, 7529, 7605, 7682, 7758, 7835, 7913, 7991, 8070, 8148, 8228, 8308, 8388, 8469, 8550, 8632,
     8714, 8796, 8879, 8963, 9047, 9131, 9216, 9301, 9387, 9473, 9560, 9647, 9734, 9823, 9911, 10000
  >>

(* channel value v in 1/Scale -> linear value in 10^-4 *)
Linear(v) ==
    LET i == v \div Scale
        f == v % Scale
    IN  IF i >= 255 THEN At(srgb_to_linear, 255)
        ELSE At(srgb_to_linear, i)
             + ((At(srgb_to_linear, i + 1) - At(srgb_to_linear, i)) * f) \div Scale

(* largest y in lo..hi-1 with y^3 <= n *)
RECURSIVE CubeRootFrom(_, _, _)
CubeRootFrom(n, lo, hi) ==
    IF hi - lo <= 1 THEN lo
    ELSE LET m == (lo + hi) \div 2
         IN  IF m * m * m <= n THEN CubeRootFrom(n, m, hi)
             ELSE CubeRootFrom(n, lo, m)

(* t in 10^-4 -> t^(1/3), or 7.787 t + 16/116, in 10^-3 *)
LabF(t) ==
    IF t > 88 THEN CubeRootFrom(t * 100000, 0, 1291)
    ELSE (7787 * t) \div 10000 + 138

rgb_to_lab(c) ==
    LET r == Linear(c[1])
        g == Linear(c[2])
        b == Linear(c[3])
        x == (((4125 * r + 3576 * g + 1804 * b) \div 10000) * 100000) \div 95047
        y == (2127 * r + 7152 * g + 722 * b) \div 10000
        z == (((193 * r + 1192 * g + 9503 * b) \div 10000) * 100000) \div 108883
        fx == LabF(x)
        fy == LabF(y)
        fz == LabF(z)
    IN  << (116 * fy - 16000) \div 100, 5 * (fx - fy), 2 * (fy - fz) >>

Fixed(c) == << c[1] * Scale, c[2] * Scale, c[3] * Scale >>

C64_PALETTE_LAB == [ i \in 1..16 |-> rgb_to_lab(Fixed(C64_PALETTE[i])) ]

----------------------------------------------------------------------------
(* The colour matchers.  Each scans the palette in index order and keeps   *)
(* an entry only when its distance is strictly smaller than the best so    *)
(* far.  d is the distance to each of the 16 entries.                      *)

(* the same scan keeping an entry that is as close as the best so far *)
RECURSIVE ScanPalette_keeps_later(_, _, _, _)
ScanPalette_keeps_later(d, i, best_idx, min_dist) ==
    IF i > 15 THEN best_idx
    ELSE IF min_dist.inf \/ d[i] <= min_dist.v
         THEN ScanPalette_keeps_later(d, i + 1, i, Fin(d[i]))
         ELSE ScanPalette_keeps_later(d, i + 1, best_idx, min_dist)

RECURSIVE ScanPalette(_, _, _, _)
ScanPalette(d, i, best_idx, min_dist) ==
    IF i > 15 THEN best_idx
    ELSE IF Lt(d[i], min_dist) THEN ScanPalette(d, i + 1, i, Fin(d[i]))
         ELSE ScanPalette(d, i + 1, best_idx, min_dist)

SumSq(a, b, c) == a * a + b * b + c * c

(* CIE76 distance of the Lab triple lab to palette entry i (radicand) *)
LabDist(lab, i) ==
    LET p == C64_PALETTE_LAB[i + 1]
    IN  SumSq(lab[1] - p[1], lab[2] - p[2], lab[3] - p[3])

(* squared RGB distance of integer pixel q to palette entry i *)
RgbDist(q, i) ==
    LET color == At(C64_PALETTE, i)
    IN  SumSq(q[1] - color[1], q[2] - color[2], q[3] - color[3])

(* find_nearest_color(rgb, use_lab).  c is in 1/Scale.  The RGB branch is  *)
(* only ever entered with integer pixels (generate_c64_data, "already      *)
(* quantized"), which is where its arithmetic is taken.                    *)
(* the same with the scan stopping one entry early: entry 15 is never taken *)
find_nearest_color_no_last(c, use_lab) ==
    IF use_lab
    THEN LET lab == rgb_to_lab(c)
         IN  ScanPalette([i \in 0..15 |-> IF i = 15 THEN LabDist(lab, 0) ELSE LabDist(lab, i)],
                         0, 0, Inf)
    ELSE LET q == << c[1] \div Scale, c[2] \div Scale, c[3] \div Scale >>
         IN  ScanPalette([i \in 0..15 |-> IF i = 15 THEN RgbDist(q, 0) ELSE RgbDist(q, i)],
                         0, 0, Inf)

find_nearest_color(c, use_lab) ==
    IF use_lab
    THEN LET lab == rgb_to_lab(c)
         IN  ScanPalette([i \in 0..15 |-> LabDist(lab, i)], 0, 0, Inf)
    ELSE LET q == << c[1] \div Scale, c[2] \div Scale, c[3] \div Scale >>
         IN  ScanPalette([i \in 0..15 |-> RgbDist(q, i)], 0, 0, Inf)

(* newyear find_closest_color(test_color): integer pixel, sqrt of the sum *)
ClosestDist(test_color, i) ==
    LET c64_color == At(C64_COLORS, i)
    IN  SumSq(c64_color[1] - test_color[1], c64_color[2] - test_color[2],
              c64_color[3] - test_color[3])

find_closest_color(test_color) ==
    ScanPalette([i \in 0..15 |-> ClosestDist(test_color, i)], 0, 0, Inf)

(* christmas find_color(test_color).  test_color is the mean of the 64     *)
(* pixels of a cell, sum/64: it is given in 64ths, and the distance        *)
(* radicand is in 64ths squared.  min_diff starts at 1000, not at          *)
(* infinity: the first comparison is dist < 1000.                          *)
FindColorDist(test_color, i) ==
    LET color == At(colors, i)
    IN  SumSq(64 * color[1] - test_color[1], 64 * color[2] - test_color[2],
              64 * color[3] - test_color[3])

(* sqrt(d)/64 < 1000 *)
LessThan1000(d) == d \div 64000 < 64000

RECURSIVE FindColorScan(_, _, _, _, _)
FindColorScan(d, indx, min_col, fresh, min_diff) ==
    IF indx > 15 THEN min_col
    ELSE IF (IF fresh THEN LessThan1000(d[indx]) ELSE d[indx] < min_diff)
         THEN FindColorScan(d, indx + 1, indx, FALSE, d[indx])
         ELSE FindColorScan(d, indx + 1, min_col, fresh, min_diff)

find_color(test_color) ==
    FindColorScan([i \in 0..15 |-> FindColorDist(test_color, i)], 0, 0, TRUE, 0)

----------------------------------------------------------------------------
(* Images.  An image is a record: w, h, and its pixels, given either one   *)
(* by one (kind "raw", data in row-major order, as getdata returns them),  *)
(* or as one colour (kind "solid", the colour bg), or as a sheet of 8x8    *)
(* cells drawn in two colours (kind "cells": the cell number n, counted    *)
(* row-major, shows the number (n * mul) % m in binary, low byte on its    *)
(* first pixel row and high byte on its second, a 1 bit drawn in fg and a  *)
(* 0 bit in bg, most significant bit leftmost).                            *)

RECURSIVE Pow2(_)
Pow2(n) == IF n = 0 THEN 1 ELSE 2 * Pow2(n - 1)

BitSet(byte, col) == (byte \div Pow2(7 - col)) % 2 = 1

CellNumber(im, x, y) == (y \div 8) * (im.w \div 8) + (x \div 8)

CellRowByte(im, n, row) ==
    LET v == (n * im.mul) % im.m
    IN  IF row = 0 THEN v % 256 ELSE IF row = 1 THEN v \div 256 ELSE 0

(* img.getpixel((x, y)) *)
getpixel(im, x, y) ==
    CASE im.kind = "raw" -> im.data[y * im.w + x + 1]
      [] im.kind = "solid" -> im.bg
      [] im.kind = "cells" ->
            IF BitSet(CellRowByte(im, CellNumber(im, x, y), y % 8), x % 8)
            THEN im.fg ELSE im.bg

(* the coordinates that getpixel accepts *)
Inside(im, x, y) == x \in 0..(im.w - 1) /\ y \in 0..(im.h - 1)

(* entry i of list(img.getdata()) *)
getdata(im, i) == getpixel(im, i % im.w, i \div im.w)

Raw(w, h, data) ==
    [w |-> w, h |-> h, kind |-> "raw", data |-> data,
     fg |-> <<0, 0, 0>>, bg |-> <<0, 0, 0>>, m |-> 1, mul |-> 1]
Solid(w, h, c) ==
    [w |-> w, h |-> h, kind |-> "solid", data |-> <<>>,
     fg |-> c, bg |-> c, m |-> 1, mul |-> 1]
Cells(w, h, fg, bg, m, mul) ==
    [w |-> w, h |-> h, kind |-> "cells", data |-> <<>>,
     fg |-> fg, bg |-> bg, m |-> m, mul |-> mul]

(* a file that Image.open cannot open or read as an image *)
Unreadable ==
    [w |-> 0, h |-> 0, kind |-> "unreadable", data |-> <<>>,
     fg |-> <<0, 0, 0>>, bg |-> <<0, 0, 0>>, m |-> 1, mul |-> 1]

(* img.resize(size, LANCZOS) of an image of one colour *)
resize(im, size) == Solid(size[1], size[2], im.bg)

(* A pixel buffer over the image im: the entries that differ from im's    *)
(* pixels, by position, in 1/Scale.  Every other entry is im's pixel.      *)
BufGet(buf, im, i) ==
    IF i \in DOMAIN buf THEN buf[i] ELSE Fixed(getdata(im, i))

BufSet(buf, im, i, v) ==
    IF v = Fixed(getdata(im, i))
    THEN IF DOMAIN buf \subseteq {i} THEN <<>>
         ELSE [ j \in DOMAIN buf \ {i} |-> buf[j] ]
    ELSE (i :> v) @@ buf

----------------------------------------------------------------------------
(* apply_floyd_steinberg_dithering: the body of the loop for the pixel at  *)
(* (x, y), and the closing conversion of the buffer to an image.           *)

(* the sum stored as it is *)
Diffuse_unclamped(buf, im, j, error, k) ==
    LET p == BufGet(buf, im, j)
    IN  BufSet(buf, im, j, [ i \in 1..3 |-> p[i] + (error[i] * k) \div 16 ])

(* max(0, ...) only *)
Diffuse_no_upper(buf, im, j, error, k) ==
    LET p == BufGet(buf, im, j)
    IN  BufSet(buf, im, j,
               [ i \in 1..3 |-> Max(0, p[i] + (error[i] * k) \div 16) ])

(* max(0, min(255, pixels[j][i] + error[i] * k / 16)) on each channel *)
Diffuse(buf, im, j, error, k) ==
    LET p == BufGet(buf, im, j)
    IN  BufSet(buf, im, j,
               [ i \in 1..3 |->
                    Max(0, Min(255 * Scale, p[i] + (error[i] * k) \div 16)) ])

DitherPixel_keep_old(buf, im, x, y) ==
    LET width == im.w
        height == im.h
        i0 == y * width + x
        old_pixel == BufGet(buf, im, i0)
        color_idx == find_nearest_color(old_pixel, TRUE)
        new_pixel == Fixed(At(C64_PALETTE, color_idx))
        error == [ i \in 1..3 |-> old_pixel[i] - new_pixel[i] ]
        b1 == IF x + 1 < width THEN Diffuse(buf, im, i0 + 1, error, 7) ELSE buf
        b2 == IF y + 1 < height /\ x > 0
              THEN Diffuse(b1, im, i0 + width - 1, error, 3) ELSE b1
        b3 == IF y + 1 < height THEN Diffuse(b2, im, i0 + width, error, 5) ELSE b2
        b4 == IF y + 1 < height /\ x + 1 < width
              THEN Diffuse(b3, im, i0 + width + 1, error, 1) ELSE b3
    IN  b4

(* the same without the test x > 0 of line 151 *)
DitherPixel_wraps(buf, im, x, y) ==
    LET width == im.w
        height == im.h
        i0 == y * width + x
        old_pixel == BufGet(buf, im, i0)
        color_idx == find_nearest_color(old_pixel, TRUE)
        new_pixel == Fixed(At(C64_PALETTE, color_idx))
        error == [ i \in 1..3 |-> old_pixel[i] - new_pixel[i] ]
        b0 == BufSet(buf, im, i0, new_pixel)
        b1 == IF x + 1 < width THEN Diffuse(b0, im, i0 + 1, error, 7) ELSE b0
        b2 == IF y + 1 < height
              THEN Diffuse(b1, im, i0 + width - 1, error, 3) ELSE b1
        b3 == IF y + 1 < height THEN Diffuse(b2, im, i0 + width, error, 5) ELSE b2
        b4 == IF y + 1 < height /\ x + 1 < width
              THEN Diffuse(b3, im, i0 + width + 1, error, 1) ELSE b3
    IN  b4

(* the same with the 7/16 share going to the pixel on the left *)
DitherPixel_leftwards(buf, im, x, y) ==
    LET width == im.w
        height == im.h
        i0 == y * width + x
        old_pixel == BufGet(buf, im, i0)
        color_idx == find_nearest_color(old_pixel, TRUE)
        new_pixel == Fixed(At(C64_PALETTE, color_idx))
        error == [ i \in 1..3 |-> old_pixel[i] - new_pixel[i] ]
        b0 == BufSet(buf, im, i0, new_pixel)
        b1 == IF x > 0 THEN Diffuse(b0, im, i0 - 1, error, 7) ELSE b0
        b2 == IF y + 1 < height /\ x > 0
              THEN Diffuse(b1, im, i0 + width - 1, error, 3) ELSE b1
        b3 == IF y + 1 < height THEN Diffuse(b2, im, i0 + width, error, 5) ELSE b2
        b4 == IF y + 1 < height /\ x + 1 < width
              THEN Diffuse(b3, im, i0 + width + 1, error, 1) ELSE b3
    IN  b4

DitherPixel(buf, im, x, y) ==
    LET width == im.w
        height == im.h
        i0 == y * width + x
        old_pixel == BufGet(buf, im, i0)
        color_idx == find_nearest_color(old_pixel, TRUE)
        new_pixel == Fixed(At(C64_PALETTE, color_idx))
        error == [ i \in 1..3 |-> old_pixel[i] - new_pixel[i] ]
        b0 == BufSet(buf, im, i0, new_pixel)
        b1 == IF x + 1 < width THEN Diffuse(b0, im, i0 + 1, error, 7) ELSE b0
        b2 == IF y + 1 < height /\ x > 0
              THEN Diffuse(b1, im, i0 + width - 1, error, 3) ELSE b1
        b3 == IF y + 1 < height THEN Diffuse(b2, im, i0 + width, error, 5) ELSE b2
        b4 == IF y + 1 < height /\ x + 1 < width
              THEN Diffuse(b3, im, i0 + width + 1, error, 1) ELSE b3
    IN  b4

(* int(c) for c >= 0 *)
Trunc(v) == (v \div Scale) * Scale

(* result.putdata([tuple(int(c) for c in p) for p in pixels]) *)
PutData(buf, im) ==
    LET ints == [ j \in DOMAIN buf |-> [ i \in 1..3 |-> Trunc(buf[j][i]) ] ]
        keep == { j \in DOMAIN buf : ints[j] # Fixed(getdata(im, j)) }
    IN  IF keep = {} THEN <<>> ELSE [ j \in keep |-> ints[j] ]

(* convert_to_c64_direct: the body of the loop for the pixel at (x, y).    *)
(* Of the result image only the pixels already put are meaningful.         *)
DirectPixel_next_entry(buf, im, x, y) ==
    LET pixel == Fixed(getpixel(im, x, y))
        color_idx == find_nearest_color(pixel, TRUE)
    IN  BufSet(buf, im, y * im.w + x, Fixed(At(C64_PALETTE, (color_idx + 1) % 16)))

DirectPixel(buf, im, x, y) ==
    LET pixel == Fixed(getpixel(im, x, y))
        color_idx == find_nearest_color(pixel, TRUE)
    IN  BufSet(buf, im, y * im.w + x, Fixed(At(C64_PALETTE, color_idx)))

(* the pixel of the finished image, as integers *)
ResultPixel(buf, im, i) ==
    LET p == BufGet(buf, im, i)
    IN  << p[1] \div Scale, p[2] \div Scale, p[3] \div Scale >>

----------------------------------------------------------------------------
(* Specification SpecQuant: one quantisation pass, pixel by pixel, over a  *)
(* small image.                                                            *)

MaxPixels == 4

PixelColours ==
    { <<0, 0, 0>>, <<255, 255, 255>>, <<102, 68, 0>>, <<100, 100, 100>>,
      <<200, 30, 30>> }

Shapes == { s \in (1..MaxPixels) \X (1..MaxPixels) : s[1] * s[2] <= MaxPixels }

SmallImages ==
    UNION { { Raw(s[1], s[2], d) : d \in [1..(s[1] * s[2]) -> PixelColours] }
            : s \in Shapes }

NoTiles ==
    /\ cell = 0 /\ charmap = <<>> /\ char_data = <<>> /\ char_counter = 0
    /\ screen_data = <<>> /\ color_data = <<>> /\ cell_log = <<>>
    /\ files = <<>>
    /\ response = <<>> /\ added = <<>>

KeepTiles == UNCHANGED <<cell, charmap, char_data, char_counter, screen_data,
                         color_data, cell_log, files>>

InitQuant ==
    /\ prog \in {"apply_floyd_steinberg_dithering", "convert_to_c64_direct"}
    /\ pc = "loop"
    /\ img \in SmallImages
    /\ args = <<>>
    /\ pixels = <<>>
    /\ idx = 0
    /\ rgb = <<>> /\ best = 0
    /\ NoTiles

DitherStep ==
    /\ prog = "apply_floyd_steinberg_dithering" /\ pc = "loop"
    /\ idx < img.w * img.h
    /\ pixels' = DitherPixel(pixels, img, idx % img.w, idx \div img.w)
    /\ idx' = idx + 1
    /\ UNCHANGED <<response, added, prog, pc, img, args, rgb, best>> /\ KeepTiles

DitherReturn ==
    /\ prog = "apply_floyd_steinberg_dithering" /\ pc = "loop"
    /\ idx = img.w * img.h
    /\ pixels' = PutData(pixels, img)
    /\ pc' = "return"
    /\ UNCHANGED <<response, added, prog, idx, img, args, rgb, best>> /\ KeepTiles

DirectStep ==
    /\ prog = "convert_to_c64_direct" /\ pc = "loop"
    /\ idx < img.w * img.h
    /\ pixels' = DirectPixel(pixels, img, idx % img.w, idx \div img.w)
    /\ idx' = idx + 1
    /\ UNCHANGED <<response, added, prog, pc, img, args, rgb, best>> /\ KeepTiles

DirectReturn ==
    /\ prog = "convert_to_c64_direct" /\ pc = "loop"
    /\ idx = img.w * img.h
    /\ pc' = "return"
    /\ UNCHANGED <<response, added, prog, idx, pixels, img, args, rgb, best>> /\ KeepTiles

NextQuant == DitherStep \/ DitherReturn \/ DirectStep \/ DirectReturn

SpecQuant == InitQuant /\ [][NextQuant]_vars

IsPaletteColour(p) == \E i \in 1..16 : C64_PALETTE[i] = p

AllPalette(im) == \A i \in 0..(im.w * im.h - 1) : IsPaletteColour(getdata(im, i))

(* C5: convert_to_c64_direct returns an image of exact palette colours     *)
(* unchanged, pixel for pixel.                                             *)
C5_DirectIdempotent ==
    (prog = "convert_to_c64_direct" /\ pc = "return" /\ AllPalette(img)) =>
        \A i \in 0..(img.w * img.h - 1) :
            ResultPixel(pixels, img, i) = getdata(img, i)

C5_Witness ==
    /\ prog = "convert_to_c64_direct" /\ pc = "return" /\ AllPalette(img)
    /\ img.w = 2 /\ img.h = 2
    /\ getdata(img, 0) = <<102, 68, 0>> /\ getdata(img, 3) = <<255, 255, 255>>

(* C6: when apply_floyd_steinberg_dithering has finished, every pixel of   *)
(* its result is exactly one of the 16 palette colours.                    *)
C6_DitheredIsPalette ==
    (prog = "apply_floyd_steinberg_dithering" /\ pc = "return") =>
        \A i \in 0..(img.w * img.h - 1) :
            /\ BufGet(pixels, img, i) = Fixed(ResultPixel(pixels, img, i))
            /\ IsPaletteColour(ResultPixel(pixels, img, i))

(* a finished 2x2 run whose input had no palette colour at all, so every   *)
(* pixel was replaced and error was passed on                              *)
C6_Witness ==
    /\ prog = "apply_floyd_steinberg_dithering" /\ pc = "return"
    /\ img.w = 2 /\ img.h = 2
    /\ \A i \in 0..3 : ~IsPaletteColour(getdata(img, i))
    /\ \E i \in 0..3 : ResultPixel(pixels, img, i) # ResultPixel(pixels, img, 0)

(* the fixed-point arithmetic is exact on every buffer explored *)
ExactArithmetic ==
    \A j \in DOMAIN pixels : \A i \in 1..3 :
        pixels[j][i] % 16 = 0 /\ pixels[j][i] \in 0..(255 * Scale)

Dithering == prog = "apply_floyd_steinberg_dithering"

(* the working value of pixel j, and the value the image had there *)
Stored(j) == BufGet(pixels, img, j)
Given(j) == Fixed(getdata(img, j))

InRange(p) == \A i \in 1..3 : p[i] \in 0..(255 * Scale)
Clamp(p) == [ i \in 1..3 |-> Max(0, Min(255 * Scale, p[i])) ]

(* p plus k/16 of the error e *)
Plus(p, e, k) == [ i \in 1..3 |-> p[i] + (e[i] * k) \div 16 ]

(* the error of the first pixel, once it has been quantised *)
FirstError == [ i \in 1..3 |-> Given(0)[i] - Stored(0)[i] ]

AfterFirstPixel == Dithering /\ pc = "loop" /\ idx = 1 /\ img.w > 1

(* C17, as claimed: the clamp is lazy: what is stored for a neighbour is   *)
(* the sum itself, so after the first pixel its right neighbour holds its  *)
(* own value plus 7/16 of the error, whatever that comes to.               *)
C17_LazyClamp ==
    AfterFirstPixel => Stored(1) = Plus(Given(1), FirstError, 7)

(* C17, as amended: the clamp is eager: a sum is clamped into 0..255       *)
(* before it is stored, so every stored channel value is in 0..255 at all  *)
(* times, and after the first pixel its right neighbour holds its own      *)
(* value plus 7/16 of the error, clamped.                                  *)
C17_EagerClamp ==
    Dithering =>
        /\ \A j \in 0..(img.w * img.h - 1) : InRange(Stored(j))
        /\ AfterFirstPixel => Stored(1) = Clamp(Plus(Given(1), FirstError, 7))

(* the sum for the right neighbour of the first pixel was out of range *)
C17_Witness ==
    /\ AfterFirstPixel
    /\ ~InRange(Plus(Given(1), FirstError, 7))
    /\ Stored(1) = Clamp(Plus(Given(1), FirstError, 7))

(* C18: while dithering, every channel value of the pixel that goes to the *)
(* nearest-colour lookup next is within 0..255.                            *)
C18_LookupInRange ==
    (Dithering /\ pc = "loop" /\ idx < img.w * img.h) => InRange(Stored(idx))

(* the last pixel of a 2 x 2 image is about to be looked up with a value   *)
(* that the error of its three neighbours has changed                      *)
C18_Witness ==
    /\ Dithering /\ pc = "loop"
    /\ img.w = 2 /\ img.h = 2 /\ idx = 3
    /\ Stored(3) # Given(3)
    /\ \E i \in 1..3 : Stored(3)[i] \notin {0, 255 * Scale}

(* the sixteenths of the error of pixel idx that go to pixel j *)
Weight(j) ==
    LET x == idx % img.w
        y == idx \div img.w
    IN  (IF j = idx + 1 /\ x + 1 < img.w THEN 7 ELSE 0)
      + (IF j = idx + img.w - 1 /\ y + 1 < img.h /\ x > 0 THEN 3 ELSE 0)
      + (IF j = idx + img.w /\ y + 1 < img.h THEN 5 ELSE 0)
      + (IF j = idx + img.w + 1 /\ y + 1 < img.h /\ x + 1 < img.w THEN 1 ELSE 0)

(* a step of the dithering loop, and its error e = old - chosen *)
DitherLoopStep == Dithering /\ pc = "loop" /\ idx' = idx + 1

StepError == [ i \in 1..3 |-> Stored(idx)[i] - BufGet(pixels', img, idx)[i] ]

C20_RowMajorOnce ==
    /\ [][Dithering =>
            /\ \A j \in 0..(idx - 1) : BufGet(pixels', img, j) = Stored(j)
            /\ idx' # idx =>
                  /\ idx' = idx + 1
                  /\ \E c \in 1..16 :
                        BufGet(pixels', img, idx) = Fixed(C64_PALETTE[c])]_vars
    /\ [](Dithering /\ pc = "return" => idx = img.w * img.h)

(* every pixel of a 2 x 2 image has been quantised, none of them to the    *)
(* colour it had, and the function has not returned yet                    *)
C20_Witness ==
    /\ Dithering /\ pc = "loop"
    /\ img.w = 2 /\ img.h = 2 /\ idx = 4
    /\ \A j \in 0..3 : Stored(j) # Given(j)

----------------------------------------------------------------------------
(* generate_c64_data of image_improved.py: the 25 x 40 cells.              *)

LUMINANCE_THRESHOLD == 128
CELL_ROWS == 25
CELL_COLS == 40
MAX_CHARS == 256
CHARMAP_BYTES == 2048

(* The 64 positions of cell (cell_x, cell_y) in the order of the loops, py *)
(* outside and px inside: at each the pixel of the quantised image, or     *)
(* nothing where x < width and y < height fails.                           *)
(* the same with width and height exchanged in the test *)
cell_pixels_swapped(buf, im, cell_x, cell_y) ==
    [ k \in 1..64 |->
        LET x == cell_x * 8 + ((k - 1) % 8)
            y == cell_y * 8 + ((k - 1) \div 8)
        IN  IF x < im.h /\ y < im.w
            THEN << ResultPixel(buf, im, y * im.w + x) >>
            ELSE << >> ]

cell_pixels(buf, im, cell_x, cell_y) ==
    [ k \in 1..64 |->
        LET x == cell_x * 8 + ((k - 1) % 8)
            y == cell_y * 8 + ((k - 1) \div 8)
        IN  IF x < im.w /\ y < im.h
            THEN << ResultPixel(buf, im, y * im.w + x) >>
            ELSE << >> ]

(* 1000 * (0.299 r + 0.587 g + 0.114 b).  The pixels are palette colours;  *)
(* in binary64 the sum for dark grey (51, 51, 51) is 50.99999999999999,    *)
(* below 51, and for every other palette colour it lies on the same side   *)
(* of every integer as the exact value.                                    *)
Luminance(pixel) ==
    299 * pixel[1] + 587 * pixel[2] + 114 * pixel[3]
      - (IF pixel = <<51, 51, 51>> THEN 1 ELSE 0)

(* the test that sets a bit, taken as if invert were always on *)
Foreground_light(pixel, threshold, invert) ==
    Luminance(pixel) >= 1000 * threshold

(* the same taken as if invert were never on *)
Foreground_dark(pixel, threshold, invert) ==
    Luminance(pixel) < 1000 * threshold

(* the test that sets a bit *)
Foreground(pixel, threshold, invert) ==
    IF invert THEN Luminance(pixel) >= 1000 * threshold
    ELSE Luminance(pixel) < 1000 * threshold

(* what position px of a row adds to byte_val: bit is 128 >> px *)
RowBit(p, a, px) ==
    IF p # << >> /\ Foreground(p[1], a.threshold, a.invert)
    THEN Pow2(7 - px) ELSE 0

(* byte_val of row py of the cell whose pixels are px *)
RowByte(px, a, py) ==
    RowBit(px[8 * py + 1], a, 0) + RowBit(px[8 * py + 2], a, 1)
      + RowBit(px[8 * py + 3], a, 2) + RowBit(px[8 * py + 4], a, 3)
      + RowBit(px[8 * py + 5], a, 4) + RowBit(px[8 * py + 6], a, 5)
      + RowBit(px[8 * py + 7], a, 6) + RowBit(px[8 * py + 8], a, 7)

cell_bytes(px, a) == [ py \in 1..8 |-> RowByte(px, a, py - 1) ]

(* color_idx at each position of the cell; -1 where there is no pixel *)
cell_color_idx(px) ==
    [ k \in 1..64 |->
        IF px[k] = << >> THEN -1
        ELSE find_nearest_color(Fixed(px[k][1]), FALSE) ]

(* cell_colors: (colour index, count) pairs in order of first occurrence *)
Bump(cc, c) ==
    IF \E k \in 1..Len(cc) : cc[k][1] = c
    THEN [ k \in 1..Len(cc) |-> IF cc[k][1] = c THEN <<c, cc[k][2] + 1>> ELSE cc[k] ]
    ELSE Append(cc, <<c, 1>>)

RECURSIVE CountRow(_, _, _, _)
CountRow(idxs, py, px, cc) ==
    IF px > 7 THEN cc
    ELSE IF Ready(cc)
         THEN CountRow(idxs, py, px + 1,
                       IF idxs[8 * py + px + 1] < 0 THEN cc
                       ELSE Bump(cc, idxs[8 * py + px + 1]))
         ELSE cc

RECURSIVE CountColors(_, _, _)
CountColors(idxs, py, cc) ==
    IF py > 7 THEN cc
    ELSE IF Ready(cc) THEN CountColors(idxs, py + 1, CountRow(idxs, py, 0, cc))
         ELSE cc

(* sorted(cell_colors.items(), key=lambda x: (x[0] == 0, -x[1]))[0][0]:    *)
(* the sort is stable, so of the items with the least key the first wins   *)
KeyLess_by_count(p, q) == p[2] > q[2]

KeyLess(p, q) ==
    \/ p[1] # 0 /\ q[1] = 0
    \/ (p[1] = 0) = (q[1] = 0) /\ p[2] > q[2]

dominant_color(cc) ==
    IF cc = <<>> THEN 0
    ELSE LET k == CHOOSE k \in 1..Len(cc) :
                     /\ \A j \in 1..Len(cc) : ~KeyLess(cc[j], cc[k])
                     /\ \A j \in 1..(k - 1) : KeyLess(cc[k], cc[j])
         IN  cc[k][1]

(* sum(abs(a - b) for a, b in zip(pattern, existing_pattern)) *)
RECURSIVE PatternDiffFrom(_, _, _)
PatternDiffFrom(p, q, i) ==
    IF i > Len(p) \/ i > Len(q) THEN 0
    ELSE Abs(p[i] - q[i]) + PatternDiffFrom(p, q, i + 1)

PatternDiff(p, q) == PatternDiffFrom(p, q, 1)

(* The scan over charmap.items(), in insertion order: entries lo+1..hi of  *)
(* the table, from the state st = (best_match, min_diff).  The range is    *)
(* halved, first half before second, so that evaluation nests only a few   *)
(* levels deep.                                                            *)
(* the same keeping an entry that is as close as the best so far *)
NearestStep_keeps_later(table, pattern, k, st) ==
    IF st.min_diff.inf \/ PatternDiff(pattern, table[k][1]) <= st.min_diff.v
    THEN [best_match |-> table[k][2],
          min_diff |-> Fin(PatternDiff(pattern, table[k][1]))]
    ELSE st

NearestStep(table, pattern, k, st) ==
    IF Lt(PatternDiff(pattern, table[k][1]), st.min_diff)
    THEN [best_match |-> table[k][2],
          min_diff |-> Fin(PatternDiff(pattern, table[k][1]))]
    ELSE st

RECURSIVE NearestScan(_, _, _, _, _)
NearestScan(table, pattern, lo, hi, st) ==
    IF hi <= lo THEN st
    ELSE IF hi = lo + 1 THEN NearestStep(table, pattern, hi, st)
    ELSE IF Ready(st)
         THEN NearestScan(table, pattern, (lo + hi) \div 2, hi,
                          NearestScan(table, pattern, lo, (lo + hi) \div 2, st))
         ELSE st

NearestPattern(table, pattern) ==
    NearestScan(table, pattern, 0, Len(table),
                [best_match |-> 0, min_diff |-> Inf]).best_match

(* charmap[pattern] *)
Lookup(table, pattern) ==
    table[CHOOSE k \in 1..Len(table) : table[k][1] = pattern][2]

Has(table, pattern) == \E k \in 1..Len(table) : table[k][1] = pattern

(* lines 247-269 of image_improved.py: the table after the cell, and the   *)
(* index that goes to screen_data                                          *)
Intern(table, data, counter, pattern) ==
    IF Has(table, pattern)
    THEN [charmap |-> table, char_data |-> data, char_counter |-> counter,
          char_idx |-> Lookup(table, pattern)]
    ELSE IF counter < MAX_CHARS
         THEN [charmap |-> Append(table, <<pattern, counter>>),
               char_data |-> Append(data, pattern),
               char_counter |-> counter + 1,
               char_idx |-> counter]
         ELSE [charmap |-> table, char_data |-> data, char_counter |-> counter,
               char_idx |-> NearestPattern(table, pattern)]

(* The text of an output file, as a sequence of tokens: the declaration,   *)
(* the decimal numbers, the commas between them, the closing "};".         *)

(* ",".join(str(v) for v in values) *)
Join(values) ==
    [ i \in 1..(2 * Len(values) - 1) |->
        IF i % 2 = 1 THEN ToString(values[(i + 1) \div 2]) ELSE "," ]

(* f"const unsigned char NAME[]={{{data_str}}};" *)
Header(name, data_str) ==
    << "const unsigned char " \o name \o "[]={" >> \o data_str \o << "};" >>

(* the same with the first bytes of all patterns first, then the second *)
Flatten_by_rows(data) ==
    [ i \in 1..(8 * Len(data)) |->
        data[((i - 1) % Len(data)) + 1][((i - 1) \div Len(data)) + 1] ]

(* the same with the rows of every pattern from the bottom up *)
Flatten_bottom_up(data) ==
    [ i \in 1..(8 * Len(data)) |-> data[((i - 1) \div 8) + 1][8 - ((i - 1) % 8)] ]

(* char_bytes after the extend loop *)
Flatten(data) ==
    [ i \in 1..(8 * Len(data)) |-> data[((i - 1) \div 8) + 1][((i - 1) % 8) + 1] ]

(* while len(char_bytes) < 2048: char_bytes.append(0) *)
PadBytes(bytes) ==
    [ i \in 1..Max(Len(bytes), CHARMAP_BYTES) |->
        IF i <= Len(bytes) THEN bytes[i] ELSE 0 ]

(* values[:n] *)
Slice(values, n) == SubSeq(values, 1, Min(n, Len(values)))

save_c64_headers(screen, data, colours) ==
    [ img_h |-> Header("img", Join(screen)),
      charmap_h |-> Header("charmap",
                           Join(Slice(PadBytes(Flatten(data)), CHARMAP_BYTES))),
      clrs_h |-> Header("clrs", Join(colours)) ]

----------------------------------------------------------------------------
(* convert_image of newyear/image.py.  brightness is (r + g + b) / 3; it   *)
(* is carried as the sum r + g + b, and 32 as 96.                          *)

BRIGHTNESS_ON == 32

(* the 64 pixels of the cell at (px_x, px_y), y outside and x inside *)
block_pixels(im, px_x, px_y) ==
    [ k \in 1..64 |-> getpixel(im, px_x + ((k - 1) % 8), px_y + ((k - 1) \div 8)) ]

NewyearCellStart ==
    [char_bytes |-> [ y \in 1..8 |-> 0 ], pixel_on_count |-> 0,
     brightest_pixel |-> <<0, 0, 0>>, brightest_value |-> 0]

(* the same with brightness >= brightest_value *)
NewyearPixel_keeps_later(st, pixel, x, y) ==
    LET brightness == pixel[1] + pixel[2] + pixel[3]
        on == brightness > 3 * BRIGHTNESS_ON
        brighter == on /\ brightness >= st.brightest_value
    IN  [char_bytes |->
             IF on THEN [st.char_bytes EXCEPT ![y + 1] = @ + Pow2(7 - x)]
             ELSE st.char_bytes,
         pixel_on_count |-> st.pixel_on_count + (IF on THEN 1 ELSE 0),
         brightest_pixel |-> IF brighter THEN pixel ELSE st.brightest_pixel,
         brightest_value |-> IF brighter THEN brightness ELSE st.brightest_value]

(* the same with bit = 1 at the left and bit <<= 1 *)
NewyearPixel_lsb_first(st, pixel, x, y) ==
    LET brightness == pixel[1] + pixel[2] + pixel[3]
        on == brightness > 3 * BRIGHTNESS_ON
        brighter == on /\ brightness > st.brightest_value
    IN  [char_bytes |->
             IF on THEN [st.char_bytes EXCEPT ![y + 1] = @ + Pow2(x)]
             ELSE st.char_bytes,
         pixel_on_count |-> st.pixel_on_count + (IF on THEN 1 ELSE 0),
         brightest_pixel |-> IF brighter THEN pixel ELSE st.brightest_pixel,
         brightest_value |-> IF brighter THEN brightness ELSE st.brightest_value]

(* lines 97-108 for the pixel at (x, y) of the cell *)
NewyearPixel(st, pixel, x, y) ==
    LET brightness == pixel[1] + pixel[2] + pixel[3]
        on == brightness > 3 * BRIGHTNESS_ON
        brighter == on /\ brightness > st.brightest_value
    IN  [char_bytes |->
             IF on THEN [st.char_bytes EXCEPT ![y + 1] = @ + Pow2(7 - x)]
             ELSE st.char_bytes,
         pixel_on_count |-> st.pixel_on_count + (IF on THEN 1 ELSE 0),
         brightest_pixel |-> IF brighter THEN pixel ELSE st.brightest_pixel,
         brightest_value |-> IF brighter THEN brightness ELSE st.brightest_value]

RECURSIVE NewyearRow(_, _, _, _)
NewyearRow(px, y, x, st) ==
    IF x > 7 THEN st
    ELSE IF Ready(st)
         THEN NewyearRow(px, y, x + 1, NewyearPixel(st, px[8 * y + x + 1], x, y))
         ELSE st

RECURSIVE NewyearCell(_, _, _)
NewyearCell(px, y, st) ==
    IF y > 7 THEN st
    ELSE IF Ready(st) THEN NewyearCell(px, y + 1, NewyearRow(px, y, 0, st))
         ELSE st

NewyearColor(st) ==
    IF st.pixel_on_count > 0 /\ st.brightest_value > 3 * BRIGHTNESS_ON
    THEN find_closest_color(st.brightest_pixel)
    ELSE 0

(* lines 121-138 of newyear/image.py with one more pattern let in *)
NewyearIntern_one_more(table, patterns, char_index, pattern_key) ==
    IF Has(table, pattern_key)
    THEN [charmap |-> table, char_data |-> patterns, char_counter |-> char_index,
          char_idx |-> Lookup(table, pattern_key)]
    ELSE IF char_index <= MAX_CHARS
         THEN [charmap |-> Append(table, <<pattern_key, char_index>>),
               char_data |-> Append(patterns, pattern_key),
               char_counter |-> char_index + 1,
               char_idx |-> char_index]
         ELSE [charmap |-> table, char_data |-> patterns,
               char_counter |-> char_index,
               char_idx |-> NearestPattern(table, pattern_key)]

(* the same with the resolved bitmap remembered in the table *)
NewyearIntern_remembers(table, patterns, char_index, pattern_key) ==
    IF Has(table, pattern_key)
    THEN [charmap |-> table, char_data |-> patterns, char_counter |-> char_index,
          char_idx |-> Lookup(table, pattern_key)]
    ELSE IF char_index < MAX_CHARS
         THEN [charmap |-> Append(table, <<pattern_key, char_index>>),
               char_data |-> Append(patterns, pattern_key),
               char_counter |-> char_index + 1,
               char_idx |-> char_index]
         ELSE [charmap |-> Append(table, <<pattern_key,
                                            NearestPattern(table, pattern_key)>>),
               char_data |-> patterns,
               char_counter |-> char_index,
               char_idx |-> NearestPattern(table, pattern_key)]

(* the same with the indices handed out from 1 *)
NewyearIntern_from_one(table, patterns, char_index, pattern_key) ==
    IF Has(table, pattern_key)
    THEN [charmap |-> table, char_data |-> patterns, char_counter |-> char_index,
          char_idx |-> Lookup(table, pattern_key)]
    ELSE IF char_index < MAX_CHARS
         THEN [charmap |-> Append(table, <<pattern_key, char_index + 1>>),
               char_data |-> Append(patterns, pattern_key),
               char_counter |-> char_index + 1,
               char_idx |-> char_index + 1]
         ELSE [charmap |-> table, char_data |-> patterns,
               char_counter |-> char_index,
               char_idx |-> NearestPattern(table, pattern_key)]

(* the same without the membership test of line 122 *)
NewyearIntern_no_lookup(table, patterns, char_index, pattern_key) ==
    IF char_index < MAX_CHARS
    THEN [charmap |-> Append(table, <<pattern_key, char_index>>),
          char_data |-> Append(patterns, pattern_key),
          char_counter |-> char_index + 1,
          char_idx |-> char_index]
    ELSE [charmap |-> table, char_data |-> patterns,
          char_counter |-> char_index,
          char_idx |-> NearestPattern(table, pattern_key)]

(* lines 121-138 of newyear/image.py *)
NewyearIntern(table, patterns, char_index, pattern_key) ==
    IF Has(table, pattern_key)
    THEN [charmap |-> table, char_data |-> patterns, char_counter |-> char_index,
          char_idx |-> Lookup(table, pattern_key)]
    ELSE IF char_index < MAX_CHARS
         THEN [charmap |-> Append(table, <<pattern_key, char_index>>),
               char_data |-> Append(patterns, pattern_key),
               char_counter |-> char_index + 1,
               char_idx |-> char_index]
         ELSE [charmap |-> table, char_data |-> patterns,
               char_counter |-> char_index,
               char_idx |-> NearestPattern(table, pattern_key)]

(* while len(char_patterns) < 256: char_patterns.append([0] * 8) *)
(* the same without the loop *)
PadPatterns_none(patterns) == patterns

PadPatterns(patterns) ==
    [ i \in 1..Max(Len(patterns), MAX_CHARS) |->
        IF i <= Len(patterns) THEN patterns[i] ELSE [ y \in 1..8 |-> 0 ] ]

NewyearFiles(screen, patterns, colours) ==
    [ img_h |-> Header("img", Join(screen)),
      charmap_h |-> Header("charmap",
                           Join(Flatten(Slice(PadPatterns(patterns), MAX_CHARS)))),
      clrs_h |-> Header("clrs", Join(colours)) ]

----------------------------------------------------------------------------
(* The legacy script christmas/image.py.  Its tables are strings; a string *)
(* is carried as its sequence of tokens (decimal numbers, ",", "\n").      *)

LEGACY_OFF_ABOVE == 196

(* eval(s) of a decimal byte *)
DecimalByte ==
    [ s \in { ToString(n) : n \in 0..255 } |-> CHOOSE n \in 0..255 : ToString(n) = s ]

Eval(s) == DecimalByte[s]

(* s.split(",") of a comma-terminated or comma-separated token string *)
Split(s) == SelectSeq(s, LAMBDA t : t # ",")

(* s[0:len(s) - 1] *)
DropLast(s) == SubSeq(s, 1, Len(s) - 1)

LegacyCellStart == [sv |-> <<>>, color |-> <<0, 0, 0>>, bx |-> 0]

(* lines 56-65: md = (c0 + c1 + c2) / 3 is carried as the sum *)
LegacyPixel(st, c, x) ==
    [sv |-> st.sv,
     color |-> << st.color[1] + c[1], st.color[2] + c[2], st.color[3] + c[3] >>,
     bx |-> st.bx + (IF c[1] + c[2] + c[3] > 3 * LEGACY_OFF_ABOVE THEN 0
                     ELSE Pow2(7 - x))]

RECURSIVE LegacyRow(_, _, _, _)
LegacyRow(px, y, x, st) ==
    IF x > 7 THEN st
    ELSE IF Ready(st)
         THEN LegacyRow(px, y, x + 1, LegacyPixel(st, px[8 * y + x + 1], x))
         ELSE st

(* lines 52-66: bx = 0, the row, sv += str(bx) + "," *)
LegacyRowDone(st) ==
    [sv |-> st.sv \o << ToString(st.bx), "," >>, color |-> st.color, bx |-> st.bx]

RECURSIVE LegacyCell(_, _, _)
LegacyCell(px, y, st) ==
    IF y > 7 THEN st
    ELSE IF Ready(st)
         THEN LegacyCell(px, y + 1,
                         LegacyRowDone(LegacyRow(px, y, 0, [st EXCEPT !.bx = 0])))
         ELSE st

(* lines 81-95.  found tells whether rapind was ever assigned: the script  *)
(* reads it unassigned (NameError) when no key is closer than 255 * 8      *)
LegacyDiff(ni, key) ==
    LET na == Split(DropLast(key))
    IN  PatternDiffFrom([ i \in 1..Len(na) |-> Abs(Eval(ni[i]) - Eval(na[i])) ],
                        [ i \in 1..Len(na) |-> 0 ], 1)

LegacyNearestStep(table, ni, k, st) ==
    IF LegacyDiff(ni, table[k][1]) < st.repval
    THEN [found |-> TRUE, rapind |-> table[k][1],
          repval |-> LegacyDiff(ni, table[k][1])]
    ELSE st

(* the loop over kk for the keys lo+1..hi, halved as in NearestScan *)
RECURSIVE LegacyNearest(_, _, _, _, _)
LegacyNearest(table, ni, lo, hi, st) ==
    IF hi <= lo THEN st
    ELSE IF hi = lo + 1 THEN LegacyNearestStep(table, ni, hi, st)
    ELSE IF Ready(st)
         THEN LegacyNearest(table, ni, (lo + hi) \div 2, hi,
                            LegacyNearest(table, ni, lo, (lo + hi) \div 2, st))
         ELSE st

(* lines 75-97: the tables after the cell, the key whose value goes to ar, *)
(* and whether the cell could be completed                                 *)
LegacyIntern(maxcolor, ra, counter, sv) ==
    IF Has(maxcolor, sv)
    THEN [ok |-> TRUE, maxcolor |-> maxcolor, ra |-> ra, counter |-> counter,
          sv |-> sv]
    ELSE IF Len(maxcolor) <= MAX_CHARS
         THEN [ok |-> TRUE, maxcolor |-> Append(maxcolor, <<sv, counter>>),
               ra |-> ra \o sv, counter |-> counter + 1, sv |-> sv]
         ELSE LET r == LegacyNearest(maxcolor, Split(DropLast(sv)), 0,
                                     Len(maxcolor),
                                     [found |-> FALSE, rapind |-> <<>>,
                                      repval |-> 255 * 8])
              IN  [ok |-> r.found, maxcolor |-> maxcolor, ra |-> ra,
                   counter |-> counter, sv |-> r.rapind]

(* lines 112-117 *)
LegacyCharmapValues(ra) ==
    LET ra_values == SelectSeq(ra, LAMBDA t : t # "," /\ t # "\n")
        padded == [ i \in 1..Max(Len(ra_values), CHARMAP_BYTES) |->
                      IF i <= Len(ra_values) THEN ra_values[i] ELSE "0" ]
    IN  Slice(padded, CHARMAP_BYTES)

(* ",".join of strings *)
JoinTokens(values) ==
    [ i \in 1..(2 * Len(values) - 1) |->
        IF i % 2 = 1 THEN values[(i + 1) \div 2] ELSE "," ]

LegacyFiles(ar, ra, clrs) ==
    [ img_h |-> Header("img", DropLast(ar)),
      charmap_h |-> Header("charmap", JoinTokens(LegacyCharmapValues(ra))),
      clrs_h |-> Header("clrs", DropLast(clrs)) ]

----------------------------------------------------------------------------
(* Specification Spec: one run of one converter on a 320 x 200 image.      *)
(* In the actions a value computed once by the code is bound once, as the  *)
(* only element of a set.                                                  *)
(*   image_improved: generate_c64_data (quantisation pass one pixel per    *)
(*                   step, then one cell per step), save_c64_headers       *)
(*   newyear:        convert_image, one cell per step, then the files      *)
(*   christmas:      the script, one cell per step, then the files         *)

IMG_W == 320
IMG_H == 200

MaxDrawings == 259

BLACK == <<0, 0, 0>>
WHITE == <<255, 255, 255>>

(* sheets of white drawings on black: two different ones, as many as a     *)
(* character set holds, and more than that                                 *)
Sheet(m) == Cells(IMG_W, IMG_H, WHITE, BLACK, m, 1)

Solids == { Solid(IMG_W, IMG_H, BLACK), Solid(IMG_W, IMG_H, WHITE) }

(* a sheet of 513 drawings that shows the even ones first: the odd ones    *)
(* come when the table is full, each as far from the drawing before it as  *)
(* from the one after it                                                   *)
Skips == Cells(IMG_W, IMG_H, WHITE, BLACK, 2 * MAX_CHARS + 1, 2)

Pictures == Solids \cup { Sheet(2), Sheet(MAX_CHARS), Sheet(MaxDrawings), Skips }

DefaultArgs ==
    [use_dithering |-> TRUE, threshold |-> LUMINANCE_THRESHOLD, invert |-> FALSE]

DirectArgs(invert) ==
    [use_dithering |-> FALSE, threshold |-> LUMINANCE_THRESHOLD, invert |-> invert]

Fresh ==
    /\ pixels = <<>>
    /\ idx = 0
    /\ rgb = <<>> /\ best = 0
    /\ NoTiles

Init ==
    /\ \/ /\ prog = "image_improved" /\ pc = "quantize"
          /\ \/ img = Sheet(2) /\ args = DirectArgs(FALSE)
             \/ img = Sheet(MaxDrawings) /\ args = DirectArgs(TRUE)
       \/ /\ prog \in {"newyear", "christmas"} /\ pc = "cells"
          /\ img \in Pictures
          /\ args = DefaultArgs
    /\ Fresh

KeepTables == UNCHANGED <<cell, charmap, char_data, char_counter, screen_data,
                          color_data, cell_log>>

(* apply_floyd_steinberg_dithering, pixel idx *)
ImprovedDither ==
    /\ prog = "image_improved" /\ pc = "quantize" /\ args.use_dithering
    /\ idx < img.w * img.h
    /\ pixels' = DitherPixel(pixels, img, idx % img.w, idx \div img.w)
    /\ idx' = idx + 1
    /\ UNCHANGED <<response, added, prog, pc, img, args, files, rgb, best>> /\ KeepTables

(* convert_to_c64_direct, pixel idx *)
ImprovedDirect ==
    /\ prog = "image_improved" /\ pc = "quantize" /\ ~args.use_dithering
    /\ idx < img.w * img.h
    /\ pixels' = DirectPixel(pixels, img, idx % img.w, idx \div img.w)
    /\ idx' = idx + 1
    /\ UNCHANGED <<response, added, prog, pc, img, args, files, rgb, best>> /\ KeepTables

(* the quantised image is handed to the cell loop *)
Quantized ==
    /\ prog = "image_improved" /\ pc = "quantize"
    /\ idx = img.w * img.h
    /\ pixels' = IF args.use_dithering THEN PutData(pixels, img) ELSE pixels
    /\ pc' = "cells"
    /\ UNCHANGED <<response, added, prog, idx, img, args, files, rgb, best>> /\ KeepTables

(* one pass of the loop body of generate_c64_data, lines 208-280 *)
ImprovedCell ==
    /\ prog = "image_improved" /\ pc = "cells"
    /\ cell < CELL_ROWS * CELL_COLS
    /\ \E px \in {cell_pixels(pixels, img, cell % CELL_COLS, cell \div CELL_COLS)} :
       \E pattern \in {cell_bytes(px, args)},
          cell_colors \in {CountColors(cell_color_idx(px), 0, <<>>)} :
       \E r \in {Intern(charmap, char_data, char_counter, pattern)} :
           /\ charmap' = r.charmap
           /\ char_data' = r.char_data
           /\ char_counter' = r.char_counter
           /\ screen_data' = Append(screen_data, r.char_idx)
           /\ color_data' = Append(color_data, dominant_color(cell_colors))
           /\ cell_log' = Append(cell_log, pattern)
    /\ cell' = cell + 1
    /\ UNCHANGED <<response, added, prog, pc, img, args, pixels, idx, files, rgb, best>>

(* generate_c64_data returns; main goes on to save_c64_headers *)
ImprovedReturn ==
    /\ prog = "image_improved" /\ pc = "cells"
    /\ cell = CELL_ROWS * CELL_COLS
    /\ pc' = "save"
    /\ UNCHANGED <<response, added, prog, img, args, pixels, idx, files, rgb, best>> /\ KeepTables

ImprovedSave ==
    /\ prog = "image_improved" /\ pc = "save"
    /\ files' = save_c64_headers(screen_data, char_data, color_data)
    /\ pc' = "done"
    /\ UNCHANGED <<response, added, prog, img, args, pixels, idx, rgb, best>> /\ KeepTables

(* the same going down the columns: cell number n at row n mod 25 *)
NewyearCellStep_by_columns ==
    /\ prog = "newyear" /\ pc = "cells"
    /\ cell < CELL_ROWS * CELL_COLS
    /\ \E row \in {cell % CELL_ROWS}, col \in {cell \div CELL_ROWS} :
       \E st \in {NewyearCell(block_pixels(img, col * 8, row * 8), 0,
                                  NewyearCellStart)} :
       \E r \in {NewyearIntern(charmap, char_data, char_counter, st.char_bytes)} :
           /\ charmap' = r.charmap
           /\ char_data' = r.char_data
           /\ char_counter' = r.char_counter
           /\ screen_data' = Append(screen_data, r.char_idx)
           /\ color_data' = Append(color_data, NewyearColor(st))
           /\ cell_log' = Append(cell_log, st.char_bytes)
    /\ cell' = cell + 1
    /\ UNCHANGED <<response, added, prog, pc, img, args, pixels, idx, files, rgb, best>>

(* one pass of the loop body of convert_image, lines 81-141 *)
NewyearCellStep ==
    /\ prog = "newyear" /\ pc = "cells"
    /\ cell < CELL_ROWS * CELL_COLS
    /\ \E row \in {cell \div CELL_COLS}, col \in {cell % CELL_COLS} :
       \E st \in {NewyearCell(block_pixels(img, col * 8, row * 8), 0,
                                  NewyearCellStart)} :
       \E r \in {NewyearIntern(charmap, char_data, char_counter, st.char_bytes)} :
           /\ charmap' = r.charmap
           /\ char_data' = r.char_data
           /\ char_counter' = r.char_counter
           /\ screen_data' = Append(screen_data, r.char_idx)
           /\ color_data' = Append(color_data, NewyearColor(st))
           /\ cell_log' = Append(cell_log, st.char_bytes)
    /\ cell' = cell + 1
    /\ UNCHANGED <<response, added, prog, pc, img, args, pixels, idx, files, rgb, best>>

(* lines 143-172: padding and the three files *)
NewyearSave ==
    /\ prog = "newyear" /\ pc = "cells"
    /\ cell = CELL_ROWS * CELL_COLS
    /\ char_data' = PadPatterns(char_data)
    /\ files' = NewyearFiles(screen_data, char_data', color_data)
    /\ pc' = "done"
    /\ UNCHANGED <<response, added, prog, img, args, pixels, idx, cell, charmap, char_counter,
                   screen_data, color_data, cell_log, rgb, best>>

(* one pass of the loop body of the script, lines 50-98, with line 102     *)
(* after the last cell of a row.  charmap is maxcolor, char_data is ra,    *)
(* char_counter is counter, screen_data is ar, color_data is clrs.  The    *)
(* image is read as it was opened: im.getpixel outside of it raises        *)
(* IndexError, which ends the script.                                      *)
LegacyCellStep ==
    /\ prog = "christmas" /\ pc = "cells"
    /\ cell < CELL_ROWS * CELL_COLS
    /\ \E i \in {cell \div CELL_COLS}, j \in {cell % CELL_COLS} :
       IF ~Inside(img, j * 8 + 7, i * 8 + 7)
       THEN /\ pc' = "IndexError"
            /\ KeepTables
       ELSE
       \E st \in {LegacyCell(block_pixels(img, j * 8, i * 8), 0,
                                 LegacyCellStart)} :
       \E r \in {LegacyIntern(charmap, char_data, char_counter, st.sv)} :
           /\ charmap' = r.maxcolor
           /\ char_counter' = r.counter
           /\ color_data' = color_data \o << ToString(find_color(st.color)), "," >>
           /\ cell_log' = Append(cell_log, st.sv)
           /\ IF r.ok
              THEN /\ screen_data' = screen_data
                        \o << ToString(Lookup(r.maxcolor, r.sv)), "," >>
                   /\ char_data' = IF j = CELL_COLS - 1 THEN r.ra \o << "\n" >>
                                   ELSE r.ra
                   /\ cell' = cell + 1
                   /\ pc' = pc
              ELSE /\ pc' = "NameError"
                   /\ UNCHANGED <<screen_data, char_data, cell>>
    /\ UNCHANGED <<response, added, prog, img, args, pixels, idx, files, rgb, best>>

(* lines 104-128 *)
LegacySave ==
    /\ prog = "christmas" /\ pc = "cells"
    /\ cell = CELL_ROWS * CELL_COLS
    /\ files' = LegacyFiles(screen_data, char_data, color_data)
    /\ pc' = "done"
    /\ UNCHANGED <<response, added, prog, img, args, pixels, idx, rgb, best>> /\ KeepTables

Next ==
    \/ ImprovedDirect \/ Quantized
    \/ ImprovedCell \/ ImprovedReturn \/ ImprovedSave
    \/ NewyearCellStep \/ NewyearSave
    \/ LegacyCellStep \/ LegacySave

Spec == Init /\ [][Next]_vars

(* Specification SpecSolid: image_improved.py with its default settings on *)
(* a 320 x 200 image of one colour.                                        *)
InitSolid ==
    /\ prog = "image_improved" /\ pc = "quantize"
    /\ img \in Solids
    /\ args = DefaultArgs
    /\ Fresh

NextSolid ==
    \/ ImprovedDither \/ Quantized
    \/ ImprovedCell \/ ImprovedReturn \/ ImprovedSave

SpecSolid == InitSolid /\ [][NextSolid]_vars

(* Specification SpecMain: the three converters from their start on a file *)
(* that is unreadable or holds an image of one colour, of the size the     *)
(* converters work on or of another size.  image_improved.py is followed   *)
(* through the lookups of its first MaxLookups pixels (its cells are in    *)
(* Spec and SpecSolid), the other two to their end.                        *)

MaxLookups == 3

DARK_GREEN == <<0, 51, 0>>

InputSizes == { <<IMG_W, IMG_H>>, <<8, 8>>, <<2 * IMG_W, 2 * IMG_H>> }

InputFiles ==
    {Unreadable}
        \cup { Solid(s[1], s[2], c) : s \in InputSizes, c \in {BLACK, DARK_GREEN} }

(* the parsed command line of image_improved.py, lines 318-345, with the   *)
(* use_dithering that line 371 makes of it; contrast and brightness are    *)
(* left at 1.0                                                             *)
MainArgs(no_dither, no_lab) ==
    [no_dither |-> no_dither, no_lab |-> no_lab,
     use_dithering |-> ~no_dither,
     threshold |-> LUMINANCE_THRESHOLD, invert |-> FALSE]

InitMain ==
    /\ pc = "open"
    /\ img \in InputFiles
    /\ \/ /\ prog = "image_improved"
          /\ \E no_dither \in BOOLEAN, no_lab \in BOOLEAN :
                args = MainArgs(no_dither, no_lab)
       \/ /\ prog \in {"newyear", "christmas"}
          /\ args = DefaultArgs
    /\ Fresh

(* main of image_improved.py, lines 347-353 *)
ImprovedOpen ==
    /\ prog = "image_improved" /\ pc = "open"
    /\ IF img.kind = "unreadable"
       THEN pc' = "OSError" /\ img' = img
       ELSE /\ img' = IF <<img.w, img.h>> # <<IMG_W, IMG_H>>
                      THEN resize(img, <<IMG_W, IMG_H>>) ELSE img
            /\ pc' = "quantize"
    /\ UNCHANGED <<response, added, prog, args, pixels, idx, files, rgb, best>> /\ KeepTables

(* the same with img.h created before the image is opened *)
NewyearOpen_creates_first ==
    /\ prog = "newyear" /\ pc = "open"
    /\ IF img.kind = "unreadable"
       THEN pc' = "OSError" /\ img' = img /\ files' = [img_h |-> <<>>]
       ELSE /\ img' = IF <<img.w, img.h>> # <<IMG_W, IMG_H>>
                      THEN resize(img, <<IMG_W, IMG_H>>) ELSE img
            /\ pc' = "cells"
            /\ files' = files
    /\ UNCHANGED <<response, added, prog, args, pixels, idx, rgb, best>> /\ KeepTables

(* convert_image of newyear/image.py, lines 56-66 *)
NewyearOpen ==
    /\ prog = "newyear" /\ pc = "open"
    /\ IF img.kind = "unreadable"
       THEN pc' = "OSError" /\ img' = img /\ files' = files
       ELSE /\ img' = IF <<img.w, img.h>> # <<IMG_W, IMG_H>>
                      THEN resize(img, <<IMG_W, IMG_H>>) ELSE img
            /\ pc' = "cells"
            /\ files' = files
    /\ UNCHANGED <<response, added, prog, args, pixels, idx, rgb, best>> /\ KeepTables

(* christmas/image.py, line 5 *)
LegacyOpen ==
    /\ prog = "christmas" /\ pc = "open"
    /\ pc' = IF img.kind = "unreadable" THEN "OSError" ELSE "cells"
    /\ UNCHANGED <<response, added, prog, img, args, pixels, idx, files, rgb, best>> /\ KeepTables

MainDither == idx < MaxLookups /\ ImprovedDither

MainDirect == idx < MaxLookups /\ ImprovedDirect

NextMain ==
    \/ ImprovedOpen \/ NewyearOpen \/ LegacyOpen
    \/ MainDither \/ MainDirect
    \/ NewyearCellStep \/ NewyearSave
    \/ LegacyCellStep \/ LegacySave

SpecMain == InitMain /\ [][NextMain]_vars

(* Specification SpecColour: convert_image on 320 x 200 sheets of 256      *)
(* drawings in two colours: both of them foreground and equally bright,    *)
(* both foreground and one brighter, one of them foreground, none of them  *)
(* foreground.                                                             *)

RED == <<136, 0, 0>>

ColourPairs ==
    { << RED, <<0, 136, 0>> >>, << WHITE, RED >>, << RED, WHITE >>,
      << <<60, 60, 60>>, <<30, 30, 30>> >>, << <<30, 30, 30>>, <<20, 40, 30>> >> }

ColourSheets == { Cells(IMG_W, IMG_H, p[1], p[2], MAX_CHARS, 1) : p \in ColourPairs }

InitColour ==
    /\ prog = "newyear" /\ pc = "cells"
    /\ img \in ColourSheets
    /\ args = DefaultArgs
    /\ Fresh

NextColour == NewyearCellStep \/ NewyearSave

SpecColour == InitColour /\ [][NextColour]_vars

(* Specification SpecPatch: generate_c64_data, dithering off, on an image  *)
(* of 2 x 2 pixels: the first tile holds the four pixels and every other   *)
(* tile none.                                                              *)

PatchColours == { BLACK, WHITE, <<200, 30, 30>> }

Patches == { Raw(2, 2, d) : d \in [1..4 -> PatchColours] }

InitPatch ==
    /\ prog = "image_improved" /\ pc = "quantize"
    /\ img \in Patches
    /\ args = DirectArgs(FALSE)
    /\ Fresh

NextPatch == ImprovedDirect \/ Quantized \/ ImprovedCell \/ ImprovedReturn

SpecPatch == InitPatch /\ [][NextPatch]_vars

(* The observation history of vlm_look.py.  files maps the name of a file  *)
(* to what the file holds; the history file holds a JSON list, carried as  *)
(* the sequence of its entries, and json.dump followed by json.load gives  *)
(* back the strings, None and booleans of an entry unchanged.  The         *)
(* timestamp of an entry, the time of the call, is left out.               *)

HISTORY_FILE == "/tmp/vlm_look_history.json"

MAX_HISTORY == 10

(* lines 201-209 *)
load_history(fs) ==
    IF HISTORY_FILE \in DOMAIN fs THEN fs[HISTORY_FILE] ELSE <<>>

(* history[:MAX_HISTORY] in place of history[-MAX_HISTORY:] *)
save_history_keeps_first(fs, history) ==
    (HISTORY_FILE :> SubSeq(history, 1, Min(Len(history), MAX_HISTORY))) @@ fs

(* lines 212-220 *)
save_history(fs, history) ==
    (HISTORY_FILE :> SubSeq(history, Max(1, Len(history) - MAX_HISTORY + 1),
                            Len(history))) @@ fs

(* lines 223-233; game and is_json have their defaults *)
add_to_history(fs, observation) ==
    LET history == load_history(fs)
        entry == [game |-> "None", observation |-> observation, is_json |-> FALSE]
    IN  save_history(fs, Append(history, entry))

(* lines 251-257 *)
clear_history(fs) ==
    IF DOMAIN fs \subseteq {HISTORY_FILE} THEN <<>>
    ELSE [ name \in DOMAIN fs \ {HISTORY_FILE} |-> fs[name] ]

(* Specification SpecHistory: one process that adds observations to the    *)
(* history and clears it, in any order, starting without a history file.   *)

MaxAdds == 11

Observations == {"bricks", "game over"}

KeepHistoryCaller ==
    UNCHANGED <<prog, pc, img, args, pixels, idx, cell, charmap, char_data,
                char_counter, screen_data, color_data, cell_log, rgb, best,
                response>>

InitHistory ==
    /\ prog = "vlm_look" /\ pc = "idle"
    /\ img = <<>> /\ args = <<>> /\ pixels = <<>> /\ idx = 0
    /\ rgb = <<>> /\ best = 0
    /\ NoTiles

AddToHistory ==
    /\ prog = "vlm_look"
    /\ Len(added) < MaxAdds
    /\ \E observation \in Observations :
          /\ files' = add_to_history(files, observation)
          /\ added' = Append(added, observation)
    /\ KeepHistoryCaller

ClearHistory ==
    /\ prog = "vlm_look"
    /\ files' = clear_history(files)
    /\ added' = <<>>
    /\ KeepHistoryCaller

NextHistory == AddToHistory \/ ClearHistory

SpecHistory == InitHistory /\ [][NextHistory]_vars

(* The memory readers of ai_toolchain.py.  A text is carried as the       *)
(* sequence of its characters.                                             *)

HexDigits ==
    << "0", "1", "2", "3", "4", "5", "6", "7", "8", "9",
       "a", "b", "c", "d", "e", "f" >>

Lower(c) ==
    CASE c = "A" -> "a" [] c = "B" -> "b" [] c = "C" -> "c"
      [] c = "D" -> "d" [] c = "E" -> "e" [] c = "F" -> "f"
      [] OTHER -> c

IsHexDigit(c) == \E i \in 1..16 : HexDigits[i] = Lower(c)

HexValue(c) == (CHOOSE i \in 1..16 : HexDigits[i] = Lower(c)) - 1

IsSpace(c) == c \in {" ", "\t"}

(* str.strip() *)
RECURSIVE lstrip(_)
lstrip(s) == IF s # <<>> /\ IsSpace(Head(s)) THEN lstrip(Tail(s)) ELSE s

RECURSIVE rstrip(_)
rstrip(s) ==
    IF s # <<>> /\ IsSpace(s[Len(s)]) THEN rstrip(SubSeq(s, 1, Len(s) - 1)) ELSE s

(* the value of a string of hexadecimal digits and underscores *)
RECURSIVE HexNumber(_, _)
HexNumber(s, acc) ==
    IF s = <<>> THEN acc
    ELSE IF Head(s) = "_" THEN HexNumber(Tail(s), acc)
    ELSE HexNumber(Tail(s), 16 * acc + HexValue(Head(s)))

(* int(s, 16): blanks around the number, a sign, the prefix 0x, and single *)
(* underscores between digits or after the prefix are accepted; anything   *)
(* else raises ValueError                                                  *)
int16(s) ==
    LET t == rstrip(lstrip(s))
        signed == t # <<>> /\ Head(t) \in {"+", "-"}
        u == IF signed THEN Tail(t) ELSE t
        prefixed == Len(u) >= 2 /\ u[1] = "0" /\ u[2] \in {"x", "X"}
        v == IF prefixed THEN SubSeq(u, 3, Len(u)) ELSE u
        d == IF prefixed /\ v # <<>> /\ Head(v) = "_" THEN Tail(v) ELSE v
        ok == /\ d # <<>>
              /\ \A i \in 1..Len(d) : IsHexDigit(d[i]) \/ d[i] = "_"
              /\ d[1] # "_" /\ d[Len(d)] # "_"
              /\ \A i \in 1..(Len(d) - 1) : ~(d[i] = "_" /\ d[i + 1] = "_")
    IN  IF ok
        THEN [ValueError |-> FALSE,
              val |-> IF signed /\ Head(t) = "-" THEN 0 - HexNumber(d, 0)
                      ELSE HexNumber(d, 0)]
        ELSE [ValueError |-> TRUE, val |-> 0]

(* s.split() *)
RECURSIVE SplitFrom(_, _, _)
SplitFrom(s, cur, acc) ==
    IF s = <<>> THEN IF cur = <<>> THEN acc ELSE Append(acc, cur)
    ELSE IF IsSpace(Head(s))
         THEN SplitFrom(Tail(s), <<>>, IF cur = <<>> THEN acc ELSE Append(acc, cur))
         ELSE SplitFrom(Tail(s), Append(cur, Head(s)), acc)

split(s) == SplitFrom(s, <<>>, <<>>)

(* s.splitlines(), for the line ends \n, \r and \r\n *)
RECURSIVE SplitLinesFrom(_, _, _)
SplitLinesFrom(s, cur, acc) ==
    IF s = <<>> THEN IF cur = <<>> THEN acc ELSE Append(acc, cur)
    ELSE IF Head(s) = "\r" /\ Len(s) > 1 /\ s[2] = "\n"
         THEN SplitLinesFrom(Tail(Tail(s)), <<>>, Append(acc, cur))
    ELSE IF Head(s) \in {"\n", "\r"}
         THEN SplitLinesFrom(Tail(s), <<>>, Append(acc, cur))
    ELSE SplitLinesFrom(Tail(s), Append(cur, Head(s)), acc)

splitlines(s) == SplitLinesFrom(s, <<>>, <<>>)

(* s[a:b] for 0 <= a <= b *)
Substr(s, a, b) == SubSeq(s, a + 1, Min(b, Len(s)))

startswith(s, prefix) == Substr(s, 0, Len(prefix)) = prefix

RAM_CELLS == 1000

(* list[i] = v: an index below 0 counts from the end, and an index outside *)
(* of the list raises IndexError                                           *)
SetItem(st, i, v) ==
    IF i \in 0..(Len(st.data) - 1)
    THEN [st EXCEPT !.data = [@ EXCEPT ![i + 1] = v]]
    ELSE IF i \in (0 - Len(st.data))..(0 - 1)
    THEN [st EXCEPT !.data = [@ EXCEPT ![Len(st.data) + i + 1] = v]]
    ELSE [st EXCEPT !.raised = "IndexError"]

(* without the lower limit *)
InRam_no_lower_limit(offset) == offset < RAM_CELLS

(* 0 <= offset < 1000, and the same of current_offset *)
InRam(offset) == 0 <= offset /\ offset < RAM_CELLS

(* val & 0x0F *)
LowNibble(val) == val % 16

(* the loop over the parts of one line, lines 137-148 and 170-181; masked  *)
(* tells get_color_ram from get_screen                                     *)
RECURSIVE StoreParts(_, _, _, _, _)
StoreParts(st, parts, i, current_offset, masked) ==
    IF i > Len(parts) \/ st.raised # "" THEN st
    ELSE IF Len(parts[i]) = 2
         THEN LET val == int16(parts[i])
              IN  IF val.ValueError \/ ~InRam(current_offset)
                  THEN StoreParts(st, parts, i + 1, current_offset, masked)
                  ELSE StoreParts(SetItem(st, current_offset,
                                          IF masked THEN LowNibble(val.val)
                                          ELSE val.val),
                                  parts, i + 1, current_offset + 1, masked)
    ELSE IF Len(parts[i]) > 2 THEN st
    ELSE StoreParts(st, parts, i + 1, current_offset, masked)

(* the body of the loop over the lines, lines 129-151 and 162-184 *)
ReadLine(st, line, base, masked) ==
    IF ~startswith(line, <<">", "C", ":">>) THEN st
    ELSE LET addr == int16(Substr(line, 3, 7))
         IN  IF addr.ValueError \/ ~InRam(addr.val - base) THEN st
             ELSE StoreParts(st, split(Substr(line, 8, Len(line))), 1,
                             addr.val - base, masked)

RECURSIVE ReadLines(_, _, _, _, _)
ReadLines(st, lines, i, base, masked) ==
    IF i > Len(lines) \/ st.raised # "" THEN st
    ELSE ReadLines(ReadLine(st, lines[i], base, masked), lines, i + 1, base, masked)

SCREEN_RAM == 1024

COLOR_RAM == 55296

(* lines 123-153, from the response on *)
get_screen(text) ==
    ReadLines([data |-> [ k \in 1..RAM_CELLS |-> 32 ], raised |-> ""],
              splitlines(text), 1, SCREEN_RAM, FALSE)

(* lines 156-186, from the response on *)
get_color_ram(text) ==
    ReadLines([data |-> [ k \in 1..RAM_CELLS |-> 0 ], raised |-> ""],
              splitlines(text), 1, COLOR_RAM, TRUE)

(* Specification SpecMonitor: one call of get_screen or of get_color_ram   *)
(* on a response of one or two lines; the lines have addresses inside,     *)
(* at the end of, before and behind either memory, written as the monitor  *)
(* writes them and in other ways, and values that are bytes, signed, not   *)
(* numbers, too short and too long.                                        *)

Prompts == { <<">", "C", ":">>, <<"(", "C", ":">> }

Addresses ==
    { <<"0", "4", "0", "0">>,
      <<"0", "7", "e", "0">>,
      <<"0", "7", "e", "8">>,
      <<"0", "3", "f", "f">>,
      <<"d", "8", "0", "0">>,
      <<"d", "b", "e", "0">>,
      <<"d", "b", "e", "8">>,
      <<"+", "4", "0", "0">>,
      <<"-", "4", "0", "0">>,
      <<" ", "4", "0", "0">>,
      <<"4", "_", "0", "0">>,
      <<"g", "4", "0", "0">>,
      <<"0", "x", "4", "0">> }

ByteColumns ==
    { <<>>,
      <<" ", " ", "0", "1", " ", "f", "f", " ", "2", "a">>,
      <<" ", " ", "1", "f", " ", "-", "1", " ", "z", "z", " ", "7", " ", "2", "0", " ", "a", "b", "c", " ", "3", "0">>,
      <<" ", " ", "0", "0", " ", "1", "1", " ", "2", "2", " ", "3", "3", " ", "4", "4", " ", "5", "5", " ", "6", "6", " ", "7", "7", " ", "8", "8", " ", "9", "9">> }

MonitorLines == { p \o a \o b : p \in Prompts, a \in Addresses, b \in ByteColumns }

SecondLines ==
    { <<">", "C", ":", "0", "4", "0", "1", " ", " ", "4", "1", " ", "4", "2">>,
      <<">", "C", ":", "d", "8", "0", "1", " ", " ", "4", "e", " ", "0", "f">>,
      <<"(", "C", ":", "$", "e", "5", "c", "f", ")", " ">>,
      <<">", "C", ":", "0", "7">> }

LineEnds == { <<"\n">>, <<"\r", "\n">> }

Responses ==
    MonitorLines
      \cup { first \o nl \o second : first \in MonitorLines, nl \in LineEnds,
                                     second \in SecondLines }

InitMonitor ==
    /\ prog \in {"get_screen", "get_color_ram"} /\ pc = "call"
    /\ img = <<>> /\ args = <<>> /\ pixels = <<>> /\ idx = 0
    /\ rgb = <<>> /\ best = 0
    /\ cell = 0 /\ charmap = <<>> /\ char_data = <<>> /\ char_counter = 0
    /\ screen_data = <<>> /\ color_data = <<>> /\ cell_log = <<>>
    /\ files = <<>> /\ added = <<>>
    /\ response \in Responses

KeepMonitorCaller ==
    UNCHANGED <<prog, img, args, pixels, idx, cell, charmap, char_data,
                char_counter, cell_log, files, rgb, best, response, added>>

GetScreen ==
    /\ prog = "get_screen" /\ pc = "call"
    /\ \E st \in {get_screen(response)} :
          /\ screen_data' = st.data
          /\ pc' = IF st.raised = "" THEN "done" ELSE st.raised
    /\ UNCHANGED color_data
    /\ KeepMonitorCaller

GetColorRam ==
    /\ prog = "get_color_ram" /\ pc = "call"
    /\ \E st \in {get_color_ram(response)} :
          /\ color_data' = st.data
          /\ pc' = IF st.raised = "" THEN "done" ELSE st.raised
    /\ UNCHANGED screen_data
    /\ KeepMonitorCaller

NextMonitor == GetScreen \/ GetColorRam

SpecMonitor == InitMonitor /\ [][NextMonitor]_vars

(* what a file holds between its braces *)
Entries(file) == Split(SubSeq(file, 2, Len(file) - 1))

Tiled == prog \in {"image_improved", "newyear"}

Assigned(table, i) == \E k \in 1..Len(table) : table[k][2] = i

(* C1: in generate_c64_data and convert_image the pattern table never      *)
(* holds more than 256 entries and every screen map entry is in 0..255;    *)
(* a cell whose bitmap is not in a table of 256 entries gets an index      *)
(* that was already assigned, and the table gets no new entry.             *)
C1_TableBounded ==
    /\ [](Tiled =>
            /\ Len(charmap) <= MAX_CHARS
            /\ \A n \in 1..Len(screen_data) : screen_data[n] \in 0..(MAX_CHARS - 1))
    /\ [][(/\ Tiled /\ cell' = cell + 1
           /\ Len(charmap) = MAX_CHARS
           /\ ~Has(charmap, cell_log'[cell'])) =>
              /\ Assigned(charmap, screen_data'[cell'])
              /\ Len(charmap') = MAX_CHARS]_vars

(* convert_image has met a bitmap that its full table does not hold *)
C1_Witness ==
    /\ prog = "newyear" /\ pc = "cells"
    /\ Len(charmap) = MAX_CHARS
    /\ cell > MAX_CHARS
    /\ ~Has(charmap, cell_log[cell])
    /\ Assigned(charmap, screen_data[cell])

(* C2, as claimed: in christmas/image.py maxcolor never holds more than    *)
(* 256 patterns and every index written to img.h is in 0..255.             *)
C2_LegacyTableBounded ==
    prog = "christmas" =>
        /\ Len(charmap) <= MAX_CHARS
        /\ \A t \in 1..Len(screen_data) :
              screen_data[t] = "," \/ screen_data[t] \in DOMAIN DecimalByte

(* C3: in generate_c64_data and convert_image, once the table holds 256    *)
(* entries no later cell changes it, and a bitmap the table does not hold  *)
(* gets the same index in every cell where it occurs.                      *)
C3_FullTableFrozen ==
    /\ [][(Tiled /\ Len(charmap) = MAX_CHARS) =>
              (charmap' = charmap /\ char_data' = char_data)]_vars
    /\ [](Tiled /\ cell > 0 /\ ~Has(charmap, cell_log[cell]) =>
            \A n \in 1..cell :
                cell_log[n] = cell_log[cell] => screen_data[n] = screen_data[cell])

(* convert_image has met the same unheld bitmap in two cells *)
C3_Witness ==
    /\ prog = "newyear" /\ pc = "cells"
    /\ Len(charmap) = MAX_CHARS
    /\ cell > 0
    /\ ~Has(charmap, cell_log[cell])
    /\ \E n \in 1..(cell - 1) :
          cell_log[n] = cell_log[cell] /\ screen_data[n] = screen_data[cell]

(* C8: each converter that completes writes 1000 screen map entries, 1000  *)
(* colour map entries and 2048 bitmap table entries.                       *)
C8_OutputLengths ==
    pc = "done" =>
        /\ Len(Entries(files.img_h)) = CELL_ROWS * CELL_COLS
        /\ Len(Entries(files.clrs_h)) = CELL_ROWS * CELL_COLS
        /\ Len(Entries(files.charmap_h)) = CHARMAP_BYTES

(* convert_image has written its files after meeting two bitmaps only *)
C8_Witness ==
    /\ pc = "done" /\ prog = "newyear"
    /\ char_counter = 2
    /\ Len(Entries(files.charmap_h)) = CHARMAP_BYTES

AllBytes(b) == [ py \in 1..8 |-> b ]

Run(colour) ==
    /\ prog = "image_improved"
    /\ img = Solid(IMG_W, IMG_H, colour)
    /\ args = DefaultArgs

(* what generate_c64_data has made of the cells so far: every bitmap has   *)
(* all bytes b, the table holds that one pattern, every colour map entry   *)
(* is colour and every screen map entry is 0                               *)
Yields(b, colour) ==
    /\ \A n \in 1..Len(cell_log) : cell_log[n] = AllBytes(b)
    /\ cell > 0 => char_data = << AllBytes(b) >>
    /\ \A n \in 1..Len(color_data) : color_data[n] = colour
    /\ \A n \in 1..Len(screen_data) : screen_data[n] = 0
    /\ pc = "done" =>
          /\ Len(cell_log) = CELL_ROWS * CELL_COLS
          /\ Len(color_data) = CELL_ROWS * CELL_COLS
          /\ Len(screen_data) = CELL_ROWS * CELL_COLS

(* C9, as amended: a solid black 320 x 200 image, default threshold,       *)
(* invert off: every bitmap has all bits set (bytes 255), the table holds  *)
(* exactly that one pattern, the colour map is all 0 and the screen map    *)
(* is all 0.                                                               *)
C9_BlackIsForeground == Run(BLACK) => Yields(255, 0)

C9_Witness == Run(BLACK) /\ pc = "done" /\ char_data = << AllBytes(255) >>

(* C9, as claimed: the same run ends with every bitmap all zero, one       *)
(* all-zero pattern, colour map all 0, screen map all 0.                   *)
C9_BlackAllZero == (Run(BLACK) /\ pc = "done") => Yields(0, 0)

(* C10, as amended: a solid white 320 x 200 image, default threshold,      *)
(* invert off: every bitmap is all zero, the table holds exactly that one  *)
(* pattern, the screen map is all 0, and the colour map is all 1 (white).  *)
C10_WhiteIsBackground == Run(WHITE) => Yields(0, 1)

C10_Witness == Run(WHITE) /\ pc = "done" /\ color_data[CELL_ROWS * CELL_COLS] = 1

(* C10, as claimed: the same run ends as the black run is claimed to:      *)
(* bitmaps all zero, one all-zero pattern, colour map all 0, screen map    *)
(* all 0.                                                                  *)
C10_WhiteAllZero == (Run(WHITE) /\ pc = "done") => Yields(0, 0)

(* the bitmaps of the cells processed so far *)
Bitmaps == { cell_log[n] : n \in 1..Len(cell_log) }

(* C11: in generate_c64_data and convert_image, when the cells of the      *)
(* image show k different bitmaps and k is at most 256, the table holds    *)
(* exactly k entries and the screen map holds the indices 0..k-1, each of  *)
(* them at least once and no other; this is so after every cell, and so    *)
(* at the end.                                                             *)
C11_OneEntryPerBitmap ==
    (Tiled /\ Cardinality(Bitmaps) <= MAX_CHARS) =>
        /\ Len(charmap) = Cardinality(Bitmaps)
        /\ char_counter = Cardinality(Bitmaps)
        /\ { screen_data[n] : n \in 1..Len(screen_data) }
              = 0..(Cardinality(Bitmaps) - 1)

(* convert_image has finished a sheet of two drawings: both indices are in *)
(* the screen map and the table holds two entries                          *)
C11_Witness ==
    /\ prog = "newyear" /\ pc = "done"
    /\ img = Sheet(2)
    /\ Cardinality(Bitmaps) = 2
    /\ Len(charmap) = 2
    /\ \E n, m \in 1..Len(screen_data) : screen_data[n] = 0 /\ screen_data[m] = 1

(* C21: in generate_c64_data and convert_image a cell whose bitmap is in   *)
(* the table gets the index stored with it and leaves the table as it is;  *)
(* a cell whose bitmap is not in a table of fewer than 256 entries adds    *)
(* the bitmap with the number of entries the table had, and gets that      *)
(* index.  So entry n of the table has index n - 1, no two entries share   *)
(* an index or a bitmap, and while the table is not full it holds exactly  *)
(* the bitmaps met so far.                                                 *)
C21_InternInOrder ==
    /\ [][(Tiled /\ cell' = cell + 1) =>
            IF Has(charmap, cell_log'[cell'])
            THEN /\ charmap' = charmap
                 /\ screen_data'[cell'] = Lookup(charmap, cell_log'[cell'])
            ELSE Len(charmap) < MAX_CHARS =>
                 /\ charmap' = Append(charmap, <<cell_log'[cell'], Len(charmap)>>)
                 /\ screen_data'[cell'] = Len(charmap)]_vars
    /\ [](Tiled =>
            /\ \A n \in 1..Len(charmap) : charmap[n][2] = n - 1
            /\ Cardinality({ charmap[n][1] : n \in 1..Len(charmap) })
                  = Len(charmap)
            /\ Len(charmap) < MAX_CHARS =>
                  { charmap[n][1] : n \in 1..Len(charmap) } = Bitmaps)

(* convert_image has met a first bitmap, a second one, and the first one   *)
(* again                                                                   *)
C21_Witness ==
    /\ prog = "newyear" /\ pc = "cells" /\ cell = 3
    /\ cell_log[1] # cell_log[2] /\ cell_log[3] = cell_log[1]
    /\ screen_data = <<0, 1, 0>>
    /\ charmap = << <<cell_log[1], 0>>, <<cell_log[2], 1>> >>

(* the table is full and the bitmap of the cell just processed was not in  *)
(* it: the legacy script takes a 257th entry before it stops inserting     *)
Full(table) ==
    IF prog = "christmas" THEN Len(table) > MAX_CHARS ELSE Len(table) = MAX_CHARS

(* distance of bitmap p to entry k of the table *)
BitmapDiff(table, p, k) ==
    IF prog = "christmas" THEN LegacyDiff(Split(DropLast(p)), table[k][1])
    ELSE PatternDiff(p, table[k][1])

(* the table entry whose index was written for the cell last processed *)
ChosenEntry(table, screen) ==
    IF prog = "christmas"
    THEN CHOOSE k \in 1..Len(table) :
             ToString(table[k][2]) = screen[Len(screen) - 1]
    ELSE CHOOSE k \in 1..Len(table) : table[k][2] = screen[Len(screen)]

FirstOfTheNearest(table, p, k) ==
    LET d == [ j \in 1..Len(table) |-> BitmapDiff(table, p, j) ]
    IN  /\ \A j \in 1..Len(table) : d[k] <= d[j]
        /\ \A j \in 1..(k - 1) : d[k] < d[j]

(* C22: when the table is full and the bitmap of a cell is not in it, the  *)
(* index written for the cell is the index of a table entry at the least   *)
(* sum of absolute byte differences from the bitmap, and of the entries at *)
(* that least sum the one inserted first.                                  *)
C22_FallbackIsFirstNearest ==
    [][(/\ cell' = cell + 1
        /\ Full(charmap)
        /\ ~Has(charmap, cell_log'[cell'])) =>
           \E k \in {ChosenEntry(charmap, screen_data')} :
               /\ k \in 1..Len(charmap)
               /\ charmap[k][2] = k - 1
               /\ FirstOfTheNearest(charmap, cell_log'[cell'], k)]_vars

(* convert_image has met, with a full table, a bitmap that two entries are *)
(* nearest to, and has written the index of the first of them              *)
C22_Witness ==
    /\ prog = "newyear" /\ pc = "cells"
    /\ cell > MAX_CHARS /\ Len(charmap) = MAX_CHARS
    /\ ~Has(charmap, cell_log[cell])
    /\ \E k \in {ChosenEntry(charmap, screen_data)} :
          /\ FirstOfTheNearest(charmap, cell_log[cell], k)
          /\ \E j \in (k + 1)..Len(charmap) :
                BitmapDiff(charmap, cell_log[cell], j)
                    = BitmapDiff(charmap, cell_log[cell], k)

(* the pixel at (x, y) of the image that the cell loop reads *)
TilePixel(x, y) ==
    IF prog = "image_improved" THEN ResultPixel(pixels, img, y * img.w + x)
    ELSE getpixel(img, x, y)

(* whether the converter takes that pixel for foreground *)
TileForeground(x, y) ==
    LET p == TilePixel(x, y)
    IN  CASE prog = "image_improved" ->
                 IF args.invert THEN Luminance(p) >= 1000 * args.threshold
                 ELSE Luminance(p) < 1000 * args.threshold
          [] prog = "newyear" -> p[1] + p[2] + p[3] > 3 * BRIGHTNESS_ON
          [] prog = "christmas" -> ~(p[1] + p[2] + p[3] > 3 * LEGACY_OFF_ABOVE)

(* the bitmap computed for cell number n (from 1), as numbers *)
TileBytes(n) ==
    IF prog = "christmas"
    THEN [ i \in 1..Len(Split(cell_log[n])) |-> Eval(Split(cell_log[n])[i]) ]
    ELSE cell_log[n]

(* C23: the bitmap of a tile is 8 bytes, byte r for pixel row r of the     *)
(* tile from the top, and in it bit 7 - c is set exactly when the pixel in *)
(* column c from the left is foreground; this in all three converters.     *)
C23_RowsMsbFirst ==
    (cell > 0 /\ prog \in {"image_improved", "newyear", "christmas"}) =>
        /\ Len(TileBytes(cell)) = 8
        /\ \A r \in 0..7 : \A c \in 0..7 :
              BitSet(TileBytes(cell)[r + 1], c)
                  <=> TileForeground(8 * ((cell - 1) % CELL_COLS) + c,
                                     8 * ((cell - 1) \div CELL_COLS) + r)

(* convert_image has made the byte 128 of a row whose leftmost pixel alone *)
(* is white                                                                *)
C23_Witness ==
    /\ prog = "newyear" /\ cell = 129
    /\ cell_log[cell][1] = 128
    /\ getpixel(img, 64, 24) = WHITE
    /\ \A c \in 1..7 : getpixel(img, 64 + c, 24) = BLACK

(* the pixels of the cell last processed by generate_c64_data, and the     *)
(* bitmap it makes of them when called with the other value of invert      *)
LastCellPixels ==
    cell_pixels(pixels, img, (cell - 1) % CELL_COLS, (cell - 1) \div CELL_COLS)

WithInvertFlipped == cell_bytes(LastCellPixels, [args EXCEPT !.invert = ~@])

(* C24: in generate_c64_data on a 320 x 200 image, at the same threshold,  *)
(* every pixel is foreground under exactly one of invert off and invert    *)
(* on, and the bitmap of a tile with invert on is, byte by byte, 255 minus *)
(* its bitmap with invert off.                                             *)
C24_InvertComplements ==
    (prog = "image_improved" /\ cell > 0 /\ <<img.w, img.h>> = <<IMG_W, IMG_H>>) =>
        /\ \A k \in 1..64 :
              Foreground(LastCellPixels[k][1], args.threshold, TRUE)
                  # Foreground(LastCellPixels[k][1], args.threshold, FALSE)
        /\ \A r \in 1..8 : cell_log[cell][r] = 255 - WithInvertFlipped[r]

(* a tile with a single white pixel, which invert on makes the byte 1 and  *)
(* invert off the byte 254                                                 *)
C24_Witness ==
    /\ prog = "image_improved" /\ args.invert /\ cell = 2
    /\ cell_log[cell][1] = 1
    /\ WithInvertFlipped[1] = 254

(* the 64 pixels of the cell last processed by convert_image, in scan      *)
(* order, and the brightness of each as the sum of its channels            *)
LastBlock ==
    block_pixels(img, 8 * ((cell - 1) % CELL_COLS), 8 * ((cell - 1) \div CELL_COLS))

Sum3(p) == p[1] + p[2] + p[3]

IsOn(p) == Sum3(p) > 3 * BRIGHTNESS_ON

(* C25: in convert_image the colour of a tile is the palette index nearest *)
(* to the brightest foreground pixel of the tile, the first one in scan    *)
(* order (rows from the top, each from the left) if several are equally    *)
(* bright, and 0 if the tile has no foreground pixel.                      *)
C25_BrightestPixelColour ==
    (prog = "newyear" /\ cell > 0) =>
        IF \A k \in 1..64 : ~IsOn(LastBlock[k])
        THEN color_data[cell] = 0
        ELSE \E k \in 1..64 :
                /\ IsOn(LastBlock[k])
                /\ \A j \in 1..64 :
                      IsOn(LastBlock[j]) => Sum3(LastBlock[j]) <= Sum3(LastBlock[k])
                /\ \A j \in 1..(k - 1) :
                      IsOn(LastBlock[j]) => Sum3(LastBlock[j]) < Sum3(LastBlock[k])
                /\ color_data[cell] = find_closest_color(LastBlock[k])

(* a tile of two equally bright colours, whose first pixel has the one     *)
(* nearest to green and whose last pixel of the first row the one nearest  *)
(* to red, has got green                                                   *)
C25_Witness ==
    /\ prog = "newyear" /\ cell = 2
    /\ LastBlock[1] = <<0, 136, 0>> /\ LastBlock[8] = RED
    /\ color_data[cell] = 5
    /\ find_closest_color(RED) = 2

(* the palette index of a palette colour *)
PaletteIndex(p) == CHOOSE i \in 0..15 : At(C64_PALETTE, i) = p

(* the palette index of every pixel of the last cell, in scan order; -1    *)
(* where the tile has no pixel                                             *)
LastCellIndexes ==
    [ k \in 1..64 |->
        IF LastCellPixels[k] = << >> THEN -1
        ELSE PaletteIndex(LastCellPixels[k][1]) ]

Holding(idxs, c) == { k \in 1..64 : idxs[k] = c }

FirstHolding(idxs, c) ==
    CHOOSE k \in Holding(idxs, c) : \A j \in Holding(idxs, c) : k <= j

(* C26: in generate_c64_data the colour of a tile is 0 when the tile has   *)
(* no pixel that is not black; otherwise it is the colour other than black *)
(* that most pixels of the tile have, and of several such colours the one  *)
(* met first in scan order.                                                *)
C26_DominantColour ==
    (prog = "image_improved" /\ cell > 0) =>
        \E idxs \in {LastCellIndexes} :
            IF \A k \in 1..64 : idxs[k] < 1
            THEN color_data[cell] = 0
            ELSE \E r \in {color_data[cell]} :
                    /\ r \in 1..15 /\ Holding(idxs, r) # {}
                    /\ \A c \in (1..15) \ {r} :
                          \/ Cardinality(Holding(idxs, c)) < Cardinality(Holding(idxs, r))
                          \/ /\ Cardinality(Holding(idxs, c)) = Cardinality(Holding(idxs, r))
                             /\ FirstHolding(idxs, r) < FirstHolding(idxs, c)

(* a tile of two white pixels and two that became red, a white one first,  *)
(* has got white                                                           *)
C26_Witness ==
    /\ prog = "image_improved" /\ cell = 1
    /\ Holding(LastCellIndexes, 1) = {1, 10} /\ Holding(LastCellIndexes, 2) = {2, 9}
    /\ color_data[cell] = 1

(* the 64 pixels of the block of the image whose left upper corner is at  *)
(* (8 * col, 8 * row), by rows                                             *)
TileBlock(col, row) ==
    [ k \in 1..64 |-> TilePixel(8 * col + ((k - 1) % 8), 8 * row + ((k - 1) \div 8)) ]

(* the key of the pattern table and the colour map entry that the          *)
(* converter derives from 64 pixels                                        *)
BlockEntry(blk) ==
    CASE prog = "image_improved" ->
             LET px == [ k \in 1..64 |-> << blk[k] >> ]
             IN  [key |-> cell_bytes(px, args),
                  colour |-> dominant_color(CountColors(cell_color_idx(px), 0, <<>>))]
      [] prog = "newyear" ->
             LET st == NewyearCell(blk, 0, NewyearCellStart)
             IN  [key |-> st.char_bytes, colour |-> NewyearColor(st)]
      [] prog = "christmas" ->
             LET st == LegacyCell(blk, 0, LegacyCellStart)
             IN  [key |-> st.sv, colour |-> ToString(find_color(st.color))]

(* the maps of the legacy script are strings of entries, a comma after each *)
MapEntries(map) == IF prog = "christmas" THEN Split(map) ELSE map

(* C27: in all three converters, after every cell, the screen map and the  *)
(* colour map have one entry per cell done, and entry k of both (from 0)   *)
(* is made from the block of pixels at x from 8 * (k mod 40) and y from    *)
(* 8 * (k div 40): the colour is that block's colour, and the screen map   *)
(* entry is the index of that block's bitmap whenever the table holds it.  *)
C27_MapsRowMajor ==
    (cell > 0 /\ prog \in {"image_improved", "newyear", "christmas"}) =>
        \E k \in {cell - 1} :
        \E e \in {BlockEntry(TileBlock(k % CELL_COLS, k \div CELL_COLS))} :
        \E scr \in {MapEntries(screen_data)}, col \in {MapEntries(color_data)} :
            /\ Len(scr) = cell /\ Len(col) = cell
            /\ col[k + 1] = e.colour
            /\ Has(charmap, e.key) =>
                  scr[k + 1] = IF prog = "christmas"
                               THEN ToString(Lookup(charmap, e.key))
                               ELSE Lookup(charmap, e.key)

(* convert_image has done the first cell of the second row, which shows    *)
(* drawing 40 of the sheet, and cell 25, which shows drawing 24            *)
C27_Witness ==
    /\ prog = "newyear" /\ img = Sheet(MAX_CHARS) /\ cell = CELL_COLS + 1
    /\ screen_data[CELL_COLS + 1] = CELL_COLS /\ cell_log[CELL_COLS + 1][1] = CELL_COLS
    /\ screen_data[CELL_ROWS] = CELL_ROWS - 1
    /\ color_data[1] = 0 /\ color_data[CELL_COLS + 1] = 1

(* the 8 entries of the emitted table for the character that the emitted   *)
(* screen map names at tile t (from 1)                                     *)
EmittedBitmap(t) ==
    LET screen_map == Entries(files.img_h)
        table == Entries(files.charmap_h)
    IN  [ r \in 1..8 |-> table[8 * Eval(screen_map[t]) + r] ]

(* C28: when the tiles of the image show at most 256 different bitmaps,    *)
(* then in the files of each of the three converters the 8 bytes of the    *)
(* table at offset 8 * screen map[t] are the bitmap computed for tile t,   *)
(* for every tile t.                                                       *)
C28_RoundTrip ==
    (pc = "done" /\ prog \in {"image_improved", "newyear", "christmas"}
        /\ Cardinality(Bitmaps) <= MAX_CHARS) =>
        \A t \in 1..(CELL_ROWS * CELL_COLS) :
            EmittedBitmap(t) = [ r \in 1..8 |-> ToString(TileBytes(t)[r]) ]

(* convert_image has written its files for the sheet of 256 drawings;     *)
(* tile 256 shows drawing 255, which is character 255 in the table         *)
C28_Witness ==
    /\ prog = "newyear" /\ pc = "done" /\ img = Sheet(MAX_CHARS)
    /\ Cardinality(Bitmaps) = MAX_CHARS
    /\ Entries(files.img_h)[MAX_CHARS] = "255"
    /\ EmittedBitmap(MAX_CHARS) = <<"255", "0", "0", "0", "0", "0", "0", "0">>

(* C29: after any sequence of add_to_history and clear_history by one     *)
(* process the stored history has at most MAX_HISTORY = 10 entries, and    *)
(* they are, in order, the last min(n, 10) of the n observations added     *)
(* since the history was last cleared.                                     *)
C29_HistoryIsRecent ==
    prog = "vlm_look" =>
        \E stored \in {load_history(files)}, n \in {Len(added)} :
            /\ Len(stored) <= 10
            /\ Len(stored) = Min(n, 10)
            /\ \A i \in 1..Len(stored) :
                  stored[i].observation = added[n - Len(stored) + i]

(* eleven observations were added, the first unlike the second: the        *)
(* history starts with the second                                          *)
C29_Witness ==
    /\ prog = "vlm_look" /\ Len(added) = 11
    /\ added[1] = "bricks" /\ added[2] = "game over"
    /\ Len(load_history(files)) = 10
    /\ load_history(files)[1].observation = "game over"
    /\ load_history(files)[10].observation = added[11]

(* the cells that a line of the response covers: the line starts with     *)
(* >C:, its next four characters are an address in the memory that is read *)
(* (base is the address of cell 0), and the cell is one of as many cells   *)
(* from that address on as the line has bytes, which are what stands       *)
(* before its first word of more than two characters and is a number of    *)
(* two characters                                                          *)
RECURSIVE BytesOf(_)
BytesOf(parts) ==
    IF parts = <<>> \/ Len(Head(parts)) > 2 THEN <<>>
    ELSE IF Len(Head(parts)) = 2 /\ ~int16(Head(parts)).ValueError
         THEN << Head(parts) >> \o BytesOf(Tail(parts))
         ELSE BytesOf(Tail(parts))

CellsOfLine(line, base) ==
    IF Len(line) >= 7 /\ SubSeq(line, 1, 3) = <<">", "C", ":">>
         /\ ~int16(SubSeq(line, 4, 7)).ValueError
    THEN LET first == int16(SubSeq(line, 4, 7)).val - base
             bytes == Len(BytesOf(split(SubSeq(line, 9, Len(line)))))
         IN  IF first \in 0..(RAM_CELLS - 1)
             THEN first..Min(first + bytes - 1, RAM_CELLS - 1)
             ELSE {}
    ELSE {}

Covered(base) ==
    UNION { CellsOfLine(splitlines(response)[i], base) :
              i \in 1..Len(splitlines(response)) }

(* C30: for every response text get_screen and get_color_ram return a      *)
(* list of exactly 1000 values (neither ends with an exception); a cell    *)
(* that no line of the response covers has the default, 32 in the screen   *)
(* and 0 in the colours, so that nothing is stored for an address outside  *)
(* of the 1000 cells; and every colour is in 0..15.                        *)
C30_ThousandCells ==
    /\ prog = "get_screen" =>
          /\ pc \in {"call", "done"}
          /\ pc = "done" =>
                /\ Len(screen_data) = 1000
                /\ \E covered \in {Covered(SCREEN_RAM)} :
                      \A k \in (0..999) \ covered : screen_data[k + 1] = 32
    /\ prog = "get_color_ram" =>
          /\ pc \in {"call", "done"}
          /\ pc = "done" =>
                /\ Len(color_data) = 1000
                /\ \E covered \in {Covered(COLOR_RAM)} :
                      \A k \in (0..999) \ covered : color_data[k + 1] = 0
                /\ \A k \in 1..1000 : color_data[k] \in 0..15

(* get_color_ram has read a line for the last 8 cells that holds 10       *)
(* bytes:                                                                  *)
(* the last cell has the 8th byte, 0x77, as 7, the cell before the 7th,    *)
(* and the first cell its default                                          *)
C30_Witness ==
    /\ prog = "get_color_ram" /\ pc = "done"
    /\ splitlines(response)[1]
         = <<">", "C", ":", "d", "b", "e", "0">> \o <<" ", " ", "0", "0", " ", "1", "1", " ", "2", "2", " ", "3", "3", " ", "4", "4", " ", "5", "5", " ", "6", "6", " ", "7", "7", " ", "8", "8", " ", "9", "9">>
    /\ Covered(COLOR_RAM) = 992..999
    /\ color_data[1000] = 7 /\ color_data[993] = 0 /\ color_data[994] = 1
    /\ color_data[1] = 0

(* C12, as claimed: --no-lab is an effective toggle of image_improved.py:  *)
(* with it every nearest-colour lookup of the quantisation, dithered or    *)
(* not, uses the RGB distance, without it the Lab distance.  The first     *)
(* pixel is looked up as the image has it, so it becomes the palette       *)
(* colour nearest to it under the selected distance.                       *)
C12_NoLabSelectsRgb ==
    (prog = "image_improved" /\ pc = "quantize" /\ idx > 0) =>
        ResultPixel(pixels, img, 0)
            = At(C64_PALETTE, find_nearest_color(Fixed(getdata(img, 0)),
                                                 ~args.no_lab))

(* C13, as claimed: every converter whose input is not 320 x 200 resizes   *)
(* it to 320 x 200 before tiling: past the opening of a readable file the  *)
(* image is 320 x 200, and no run ends in an error for its size.           *)
C13_AlwaysResized ==
    (img.kind # "unreadable" /\ pc # "open") =>
        /\ <<img.w, img.h>> = <<IMG_W, IMG_H>>
        /\ pc # "IndexError"

(* C14: when the source image cannot be opened, the converter goes from    *)
(* the opening straight to an error, and none of img.h, charmap.h, clrs.h  *)
(* is created or written, nor any cell processed.                          *)
C14_NoOutputWithoutInput ==
    /\ [](img.kind = "unreadable" =>
            /\ pc \in {"open", "OSError"}
            /\ files = <<>>
            /\ cell = 0 /\ idx = 0)
    /\ [][(img.kind = "unreadable" /\ pc = "open") => pc' = "OSError"]_vars

(* the legacy script has ended on a file it could not open *)
C14_Witness ==
    /\ prog = "christmas" /\ pc = "OSError"
    /\ img = Unreadable
    /\ files = <<>>

(* C15: the bitmap table written by save_c64_headers and by convert_image  *)
(* holds, at entries 8i+1 .. 8i+8, the eight bytes of the pattern that was *)
(* interned with index i, for every interned pattern, and after the last   *)
(* of them nothing but zeros.                                              *)
C15_TableInIndexOrder ==
    (Tiled /\ pc = "done") =>
        /\ \A k \in 1..Len(charmap) : \A b \in 1..8 :
              Entries(files.charmap_h)[8 * charmap[k][2] + b]
                  = ToString(charmap[k][1][b])
        /\ \A n \in (8 * Len(charmap) + 1)..Len(Entries(files.charmap_h)) :
              Entries(files.charmap_h)[n] = "0"

(* convert_image has written a table of two patterns: the second one, not  *)
(* all zero, is at entries 9..16 and a zero follows it                     *)
C15_Witness ==
    /\ prog = "newyear" /\ pc = "done"
    /\ Len(charmap) = 2
    /\ \E b \in 1..8 : Entries(files.charmap_h)[8 + b] # "0"
    /\ Entries(files.charmap_h)[17] = "0"

----------------------------------------------------------------------------
(* Specification SpecMatch: one call of one colour matcher on one colour. *)

Levels == { 17 * k : k \in 0..15 } \cup { 128 }
Halves == { 0, 32 }

Idle == img = <<>> /\ args = <<>> /\ pixels = <<>> /\ idx = 0 /\ NoTiles

InitMatch ==
    /\ prog \in {"find_nearest_color_lab", "find_nearest_color_rgb",
                 "find_closest_color", "find_color"}
    /\ pc = "call"
    /\ \E r \in Levels, g \in Levels, b \in Levels :
          IF prog = "find_color"
          THEN \E h \in Halves :
                 rgb = << Min(64 * r + h, 64 * 255), Min(64 * g + h, 64 * 255),
                          Min(64 * b + h, 64 * 255) >>
          ELSE rgb = <<r, g, b>>
    /\ best = 0
    /\ Idle

KeepConverter ==
    /\ UNCHANGED <<img, args, pixels, idx>>
    /\ KeepTiles

MatchLab ==
    /\ prog = "find_nearest_color_lab" /\ pc = "call"
    /\ best' = find_nearest_color(Fixed(rgb), TRUE)
    /\ pc' = "return"
    /\ UNCHANGED <<response, added, prog, rgb>> /\ KeepConverter

MatchRgb ==
    /\ prog = "find_nearest_color_rgb" /\ pc = "call"
    /\ best' = find_nearest_color(Fixed(rgb), FALSE)
    /\ pc' = "return"
    /\ UNCHANGED <<response, added, prog, rgb>> /\ KeepConverter

MatchClosest ==
    /\ prog = "find_closest_color" /\ pc = "call"
    /\ best' = find_closest_color(rgb)
    /\ pc' = "return"
    /\ UNCHANGED <<response, added, prog, rgb>> /\ KeepConverter

MatchFindColor ==
    /\ prog = "find_color" /\ pc = "call"
    /\ best' = find_color(rgb)
    /\ pc' = "return"
    /\ UNCHANGED <<response, added, prog, rgb>> /\ KeepConverter

NextMatch == MatchLab \/ MatchRgb \/ MatchClosest \/ MatchFindColor

SpecMatch == InitMatch /\ [][NextMatch]_vars

(* C4: every colour matcher returns an index in 0..15 whose palette entry  *)
(* is at least as close to the input, under the matcher's own metric, as   *)
(* every other palette entry.                                              *)
MatcherDist(i) ==
    CASE prog = "find_nearest_color_lab" -> LabDist(rgb_to_lab(Fixed(rgb)), i)
      [] prog = "find_nearest_color_rgb" -> RgbDist(rgb, i)
      [] prog = "find_closest_color" -> ClosestDist(rgb, i)
      [] prog = "find_color" -> FindColorDist(rgb, i)

C4_NearestIsMinimal ==
    (prog \in {"find_nearest_color_lab", "find_nearest_color_rgb",
               "find_closest_color", "find_color"} /\ pc = "return") =>
        /\ best \in 0..15
        /\ \A j \in 0..15 : ~(MatcherDist(j) < MatcherDist(best))

(* a call has returned a palette entry other than the first one, for a     *)
(* colour that is not itself a palette colour                              *)
C4_Witness ==
    /\ prog = "find_nearest_color_lab" /\ pc = "return"
    /\ best = 15
    /\ \A i \in 1..16 : C64_PALETTE[i] # rgb

(* C16: when several palette entries are at the minimum distance from the  *)
(* input, a matcher returns the one with the lowest index: every entry     *)
(* before the returned one is strictly farther from the input.             *)
C16_FirstOfTheNearest ==
    pc = "return" =>
        \A j \in 0..(best - 1) : MatcherDist(best) < MatcherDist(j)

(* find_closest_color has returned the first of two entries that are both  *)
(* nearest to a colour, as (85, 17, 0) is as far from the red (index 2) as *)
(* from the brown (index 9)                                                *)
C16_Witness ==
    /\ prog = "find_closest_color" /\ pc = "return"
    /\ best > 0
    /\ \E j \in (best + 1)..15 : MatcherDist(j) = MatcherDist(best)
    /\ \A j \in 0..15 : MatcherDist(best) <= MatcherDist(j)
    /\ C64_COLORS[best + 1] # rgb

====
